---- MODULE Spec2Model ----
(***************************************************************************)
(* Model of the Fabricator of src/src/extensions/extensionsHelper.ts: the  *)
(* reconciler that applies a DeploymentPlan.  One behaviour is one         *)
(* Fabricator instance (constructor, then applyPlan).  Every provider call *)
(* is an asynchronous step that the environment settles with success or    *)
(* failure; the synchronous prefix of every async function is executed     *)
(* inside the action that invokes it, as the JavaScript run-time does.     *)
(***************************************************************************)
EXTENDS Integers, Sequences, FiniteSets, Bags, TLC

\* ------------------------------------------------------------------ bounds
\* A plan holds at most MaxEndpoints endpoints of the Catalog.
MaxEndpoints == 3

\* ------------------------------------------------------- program constants
DEFAULT_GCFV2_CONCURRENCY == 80
DEFAULT_MEMORY == 256
MIN_MEMORY_FOR_CONCURRENCY == 2048

\* ----------------------------------------------------------------- inputs
\* Changeset keys of a DeploymentPlan, in Object.values order.
Changesets == <<"us", "eu">>

CS == {Changesets[i] : i \in 1..Len(Changesets)}

\* An endpoint: platform, trigger variant and the fields the Fabricator reads.
\* invoker: "none" (undefined), "private" or a principal list ("public", "sa").
\* concurrency 0 and memory 0 stand for an unset field.
Endpoint(platform, trigger, invoker, auth, topic, conc, mem) ==
    [platform |-> platform, trigger |-> trigger, invoker |-> invoker,
     authEvent |-> auth, pubsubTopic |-> topic, concurrency |-> conc,
     availableMemoryMb |-> mem]

NoEndpoint == Endpoint("none", "none", "none", FALSE, FALSE, 0, 0)

\* The endpoints plans of several endpoints are drawn from.  role is the list of
\* the Changeset the endpoint is in; old is the deleteAndRecreate endpoint of an
\* EndpointUpdate.
Core ==
    <<[cs |-> "us", role |-> "create",
       ep |-> Endpoint("gcfv1", "https", "none", FALSE, FALSE, 0, 0),
       old |-> NoEndpoint],
      [cs |-> "us", role |-> "create",
       ep |-> Endpoint("gcfv1", "blocking", "none", TRUE, FALSE, 0, 0),
       old |-> NoEndpoint],
      [cs |-> "us", role |-> "update",
       ep |-> Endpoint("gcfv1", "taskQueue", "sa", FALSE, FALSE, 0, 0),
       old |-> Endpoint("gcfv1", "scheduled", "none", FALSE, FALSE, 0, 0)],
      [cs |-> "us", role |-> "delete",
       ep |-> Endpoint("gcfv2", "blocking", "none", TRUE, FALSE, 0, 0),
       old |-> NoEndpoint],
      [cs |-> "eu", role |-> "create",
       ep |-> Endpoint("gcfv2", "blocking", "none", FALSE, FALSE, 1, 0),
       old |-> NoEndpoint],
      [cs |-> "eu", role |-> "update",
       ep |-> Endpoint("gcfv1", "event", "none", FALSE, FALSE, 0, 0),
       old |-> NoEndpoint],
      [cs |-> "eu", role |-> "delete",
       ep |-> Endpoint("gcfv1", "https", "none", FALSE, FALSE, 0, 0),
       old |-> NoEndpoint]>>

\* Further endpoints, each applied alone or next to one planned delete of its
\* changeset: the other trigger variants, invoker and concurrency settings.
Extra ==
    <<[cs |-> "eu", role |-> "create",                                    \* 8
       ep |-> Endpoint("gcfv2", "event", "none", FALSE, TRUE, 0, 2048),
       old |-> NoEndpoint],
      [cs |-> "eu", role |-> "create",                                    \* 9
       ep |-> Endpoint("gcfv2", "scheduled", "none", FALSE, FALSE, 1, 0),
       old |-> NoEndpoint],
      [cs |-> "eu", role |-> "update",                                    \* 10
       ep |-> Endpoint("gcfv2", "scheduled", "none", FALSE, FALSE, 0, 0),
       old |-> NoEndpoint],
      [cs |-> "us", role |-> "create",                                    \* 11
       ep |-> Endpoint("gcfv1", "https", "private", FALSE, FALSE, 0, 0),
       old |-> NoEndpoint],
      [cs |-> "eu", role |-> "create",                                    \* 12
       ep |-> Endpoint("gcfv2", "https", "sa", FALSE, FALSE, 1, 0),
       old |-> NoEndpoint],
      [cs |-> "us", role |-> "create",                                    \* 13
       ep |-> Endpoint("gcfv1", "taskQueue", "none", FALSE, FALSE, 0, 0),
       old |-> NoEndpoint],
      [cs |-> "eu", role |-> "update",                                    \* 14
       ep |-> Endpoint("gcfv2", "taskQueue", "none", FALSE, FALSE, 0, 0),
       old |-> NoEndpoint],
      [cs |-> "us", role |-> "update",                                    \* 15
       ep |-> Endpoint("gcfv1", "callable", "none", FALSE, FALSE, 0, 0),
       old |-> NoEndpoint],
      [cs |-> "eu", role |-> "create",                                    \* 16
       ep |-> Endpoint("gcfv2", "callable", "sa", FALSE, FALSE, 1, 0),
       old |-> NoEndpoint],
      [cs |-> "eu", role |-> "update",                                    \* 17
       ep |-> Endpoint("gcfv2", "blocking", "sa", TRUE, FALSE, 1, 4096),
       old |-> NoEndpoint],
      [cs |-> "eu", role |-> "update",                                    \* 18
       ep |-> Endpoint("gcfv2", "https", "none", FALSE, FALSE, 0, 2048),
       old |-> NoEndpoint],
      [cs |-> "eu", role |-> "delete",                                    \* 19
       ep |-> Endpoint("gcfv2", "scheduled", "none", FALSE, FALSE, 0, 0),
       old |-> NoEndpoint],
      [cs |-> "us", role |-> "delete",                                    \* 20
       ep |-> Endpoint("gcfv1", "taskQueue", "none", FALSE, FALSE, 0, 0),
       old |-> NoEndpoint],
      [cs |-> "us", role |-> "update",                                    \* 21
       ep |-> Endpoint("gcfv2", "blocking", "none", TRUE, FALSE, 1, 0),
       old |-> Endpoint("gcfv1", "blocking", "none", TRUE, FALSE, 0, 0)],
      [cs |-> "eu", role |-> "create",                                    \* 22
       ep |-> Endpoint("gcfv2", "taskQueue", "sa", FALSE, FALSE, 40, 4096),
       old |-> NoEndpoint],
      [cs |-> "eu", role |-> "create",                                    \* 23
       ep |-> Endpoint("gcfv2", "event", "none", FALSE, FALSE, 0, 1024),
       old |-> NoEndpoint],
      [cs |-> "eu", role |-> "update",                                    \* 24
       ep |-> Endpoint("gcfv2", "event", "none", FALSE, TRUE, 0, 0),
       old |-> NoEndpoint],
      [cs |-> "us", role |-> "delete",                                    \* 25
       ep |-> Endpoint("gcfv1", "scheduled", "none", FALSE, FALSE, 0, 0),
       old |-> NoEndpoint]>>

Catalog == Core \o Extra

Ids == 1..Len(Catalog)

CoreIds == 1..Len(Core)

ExtraIds == Ids \ CoreIds

\* The plans applyPlan is called with: up to MaxEndpoints endpoints of Core, or
\* one endpoint of Extra with at most one planned delete of its changeset.
Plans ==
    {P \in SUBSET CoreIds : Cardinality(P) <= MaxEndpoints}
    \cup {{x} : x \in ExtraIds}
    \cup UNION {{{x, d} : d \in {y \in CoreIds : /\ Core[y].role = "delete"
                                                  /\ Core[y].cs = Catalog[x].cs}} :
                x \in ExtraIds}

IsRecreate(t) == Catalog[t].old # NoEndpoint

IdSeq == [i \in Ids |-> i]

\* changes.endpointsToCreate followed by changes.endpointsToUpdate.
Upserts(P, c) ==
    SelectSeq(IdSeq, LAMBDA t : t \in P /\ Catalog[t].cs = c /\ Catalog[t].role = "create")
    \o SelectSeq(IdSeq, LAMBDA t : t \in P /\ Catalog[t].cs = c /\ Catalog[t].role = "update")

\* changes.endpointsToDelete.
Deletes(P, c) ==
    SelectSeq(IdSeq, LAMBDA t : t \in P /\ Catalog[t].cs = c /\ Catalog[t].role = "delete")

Range(s) == {s[i] : i \in 1..Len(s)}

\* ------------------------------------------------------------------ errors
NoErr == [type |-> "none", endpoint |-> 0, op |-> "", cause |-> ""]

DeploymentError(t, op, cause) ==
    [type |-> "DeploymentError", endpoint |-> t, op |-> op, cause |-> cause]

AbortedDeploymentError(t) ==
    [type |-> "AbortedDeploymentError", endpoint |-> t, op |-> "", cause |-> ""]

PreconditionError == [type |-> "Error", endpoint |-> 0, op |-> "", cause |-> "Precondition failed"]

VARIABLES
    sourceUrl,      \* FabricatorArgs.sourceUrl is set
    storage,        \* FabricatorArgs.storage is set
    planStatus,     \* "idle", "running" (applyPlan called), "returned"
    plan,           \* the endpoints of the plan being applied
    csStatus,       \* per changeset: "new", "upserting", "deleting", "returned"
    pc,             \* per endpoint task: the provider call it awaits
    phase,          \* per endpoint task: "create", "update" or "delete"
    calls,          \* per endpoint task: the provider calls issued, in order
    sourceToken,    \* per endpoint task: apiFunction.sourceToken (-1 unset, 0 undefined)
    hstatus,        \* per endpoint task: state of the promise handle() returned
    firstCall,      \* per scraper: SourceTokenScraper.firstCall
    token,          \* per scraper: the resolved token (0 while pending)
    triggerQueue,   \* this.triggerQueue: the chain of .then links
    service,        \* per endpoint task: containerConcurrency run.getService returned (0: not read)
    topicAnswer,    \* per endpoint task: what pubsub.createTopic answered ("none": nothing yet)
    inflight,       \* per endpoint task: its provider calls issued and not yet settled
    uri,            \* per endpoint: endpoint.uri ("plan": as the plan gave it)
    labels,         \* per endpoint: endpoint.labels ("plan": as the plan gave them)
    helper,         \* the running call of an extension source helper
    deployResults,  \* per changeset: applyChangeset's deployResults
    summary         \* summary.results of applyPlan

vars == <<sourceUrl, storage, planStatus, plan, csStatus, pc, phase, calls,
          sourceToken, hstatus, firstCall, token, triggerQueue, service,
          topicAnswer, inflight, uri, labels, helper, deployResults, summary>>

\* The part of the state the endpoint operations read and write.
Cur ==
    [pc |-> pc, phase |-> phase, calls |-> calls, sourceToken |-> sourceToken,
     hstatus |-> hstatus, firstCall |-> firstCall, triggerQueue |-> triggerQueue,
     service |-> service, topicAnswer |-> topicAnswer, inflight |-> inflight, uri |-> uri, labels |-> labels,
     deployResults |-> deployResults]

Set(S) ==
    /\ pc' = S.pc
    /\ phase' = S.phase
    /\ calls' = S.calls
    /\ sourceToken' = S.sourceToken
    /\ hstatus' = S.hstatus
    /\ firstCall' = S.firstCall
    /\ triggerQueue' = S.triggerQueue
    /\ service' = S.service
    /\ topicAnswer' = S.topicAnswer
    /\ inflight' = S.inflight
    /\ uri' = S.uri
    /\ labels' = S.labels
    /\ deployResults' = S.deployResults

\* The endpoint a task is acting on: the old one while an update deletes it.
Ep(S, t) == IF IsRecreate(t) /\ S.phase[t] = "delete" THEN Catalog[t].old ELSE Catalog[t].ep

\* ---------------------------------------------------------- handle, calls
\* timer.stop(): the elapsed time, counted in provider calls issued.
TimerStop(S, t) == Len(S.calls[t])

\* Faulty variant of Handle: no catch around fn, so a failure rejects the promise of
\* handle and leaves no result.
HandleNoCatch(S, t, err) ==
    IF err = NoErr
    THEN [S EXCEPT !.pc[t] = "done",
                   !.hstatus[t] = "fulfilled",
                   !.deployResults[Catalog[t].cs] =
                       @ (+) SetToBag({[endpoint |-> t, durationMs |-> TimerStop(S, t),
                                        error |-> err]})]
    ELSE [S EXCEPT !.pc[t] = "done", !.hstatus[t] = "rejected"]

\* handle(op, endpoint, fn) once fn settled with err (NoErr: fn resolved):
\* the outcome is recorded in deployResults and the promise of handle resolves.
Handle(S, t, err) ==
    LET result == [endpoint |-> t, durationMs |-> TimerStop(S, t), error |-> err]
    IN  [S EXCEPT !.pc[t] = "done",
                  !.hstatus[t] = "fulfilled",
                  !.deployResults[Catalog[t].cs] = @ (+) SetToBag({result})]

\* rethrowAs(endpoint, op): the rejection of a provider call as a DeploymentError.
rethrowAs(t, op) == DeploymentError(t, op, "provider")

\* Faulty variant of ExecutorOf: every call runs in the one fast executor.
ExecutorOfSingle(api) == "executor"

\* The executor instance every provider call runs in.
ExecutorOf(api) ==
    IF api \in {"createFunction", "updateFunction", "deleteFunction", "pollOperation",
                "getService", "replaceService"}
    THEN "functionExecutor" ELSE "executor"

\* A provider call is handed to its executor; the task awaits it.
Issue(S, t, api, arg) ==
    [S EXCEPT !.pc[t] = api,
              !.calls[t] = Append(@, [api |-> api, arg |-> arg,
                                      executor |-> ExecutorOf(api)]),
              !.inflight[t] = @ + 1]

\* Faulty variant of Await: the task goes on while its call is still in flight.
AwaitSkipped(S, t) == S

\* await ...run(...): the task goes on once its call settled.
Await(S, t) == [S EXCEPT !.inflight[t] = @ - 1]

\* The OperationType a failure of the awaited call is rethrown as.
OpKind(api, ph) ==
    CASE api \in {"createFunction", "updateFunction", "deleteFunction", "pollOperation"} -> ph
      [] api = "createTopic" -> "create topic"
      [] api = "setInvoker" -> "set invoker"
      [] api \in {"getService", "replaceService"} -> "set concurrency"
      [] api = "createOrReplaceJob" -> "upsert schedule"
      [] api = "upsertQueue" -> "upsert task queue"
      [] api = "setEnqueuer" -> "set invoker"
      [] api = "registerTrigger" -> "register blocking trigger"
      [] api = "deleteJob" -> "delete schedule"
      [] api = "deleteTopic" -> "delete topic"
      [] api = "updateQueue" -> "disable task queue"
      [] api = "unregisterTrigger" -> "unregister blocking trigger"

Apis ==
    {"createTopic", "createFunction", "updateFunction", "deleteFunction", "pollOperation",
     "setInvoker", "getService", "replaceService", "createOrReplaceJob", "upsertQueue",
     "setEnqueuer", "registerTrigger", "deleteJob", "deleteTopic", "updateQueue",
     "unregisterTrigger"}

\* ----------------------------------------------------------- trigger queue
\* this.triggerQueue = this.triggerQueue.then(...); return this.triggerQueue:
\* a new link is chained to the tail and the caller awaits that link.
Enqueue(S, t, kind, arg) ==
    [S EXCEPT !.pc[t] = "queued",
              !.triggerQueue = Append(@, [t |-> t, kind |-> kind, arg |-> arg,
                                          st |-> "pending", err |-> NoErr])]

\* The link a task awaits: the last one it chained.
LinkOf(S, t) ==
    CHOOSE i \in 1..Len(S.triggerQueue) :
        /\ S.triggerQueue[i].t = t
        /\ \A j \in (i + 1)..Len(S.triggerQueue) : S.triggerQueue[j].t # t

SettleLink(S, t, st, err) ==
    [S EXCEPT !.triggerQueue[LinkOf(S, t)].st = st, !.triggerQueue[LinkOf(S, t)].err = err]

\* ---------------------------------------------------------------- triggers
\* Faulty variant of setTrigger: a gcfv2 schedule is upserted like a gcfv1 one.
setTriggerSchedulesV2(S, t, update) ==
    LET e == Ep(S, t)
    IN  CASE e.trigger = "scheduled" -> Issue(S, t, "createOrReplaceJob", "")
          [] e.trigger = "taskQueue" -> Issue(S, t, "upsertQueue", "")
          [] e.trigger = "blocking" ->
               Enqueue(S, t, "registerTrigger", IF update THEN "update" ELSE "create")
          [] OTHER -> Handle(S, t, NoErr)

\* setTrigger(endpoint, update)
setTrigger(S, t, update) ==
    LET e == Ep(S, t)
    IN  CASE e.trigger = "scheduled" /\ e.platform = "gcfv1" ->
               Issue(S, t, "createOrReplaceJob", "")
          [] e.trigger = "scheduled" /\ e.platform = "gcfv2" ->
               Handle(S, t, DeploymentError(t, "upsert schedule", "Not implemented"))
          [] e.trigger = "taskQueue" -> Issue(S, t, "upsertQueue", "")
          [] e.trigger = "blocking" ->
               Enqueue(S, t, "registerTrigger", IF update THEN "update" ELSE "create")
          [] OTHER -> Handle(S, t, NoErr)

\* deleteV1Function / deleteV2Function
deleteFunction(S, t) == Issue(S, t, "deleteFunction", "")

\* Faulty variant of deleteScheduleV1: the topic is deleted first.
deleteScheduleV1TopicFirst(S, t) == Issue(S, t, "deleteTopic", "")

\* deleteScheduleV1 up to its first await: the schedule job is deleted.
deleteScheduleV1(S, t) == Issue(S, t, "deleteJob", "")

\* Faulty variant of deleteEndpoint: the function is deleted without tear-down.
deleteEndpointSkipsTearDown(S, t) == deleteFunction(S, t)

\* deleteEndpoint: deleteTrigger(endpoint), then the function delete.
deleteEndpoint(S, t) ==
    LET e == Ep(S, t)
    IN  CASE e.trigger = "scheduled" /\ e.platform = "gcfv1" -> deleteScheduleV1(S, t)
          [] e.trigger = "scheduled" /\ e.platform = "gcfv2" ->
               Handle(S, t, DeploymentError(t, "delete schedule", "Not implemented"))
          [] e.trigger = "taskQueue" -> Issue(S, t, "updateQueue", "")
          [] e.trigger = "blocking" -> Enqueue(S, t, "unregisterTrigger", "")
          [] OTHER -> deleteFunction(S, t)

\* ------------------------------------------------- invoker and concurrency
\* Faulty variant of InvokerOnCreate: a private https invoker list is set as well.
InvokerOnCreateSetsPrivate(e) ==
    CASE e.trigger = "https" -> IF e.invoker = "none" THEN "public" ELSE e.invoker
      [] e.trigger = "callable" -> "public"
      [] e.trigger = "taskQueue" ->
           IF e.invoker # "none" /\ e.invoker # "private" THEN e.invoker ELSE "none"
      [] e.trigger = "blocking" /\ e.authEvent -> "public"
      [] OTHER -> "none"

\* The invoker createV1Function / createV2Function sets ("none": no call).
InvokerOnCreate(e) ==
    CASE e.trigger = "https" ->
           LET invoker == IF e.invoker = "none" THEN "public" ELSE e.invoker
           IN  IF invoker = "private" THEN "none" ELSE invoker
      [] e.trigger = "callable" -> "public"
      [] e.trigger = "taskQueue" ->
           IF e.invoker # "none" /\ e.invoker # "private" THEN e.invoker ELSE "none"
      [] e.trigger = "blocking" /\ e.authEvent -> "public"
      [] OTHER -> "none"

\* Faulty variant of InvokerOnUpdate: a task queue without invoker is made public.
InvokerOnUpdateDefaultsPublic(e) ==
    CASE e.trigger = "https" -> e.invoker
      [] e.trigger = "taskQueue" -> IF e.invoker = "none" THEN "public" ELSE e.invoker
      [] e.trigger = "blocking" /\ e.authEvent -> "public"
      [] OTHER -> "none"

\* The invoker updateV1Function / updateV2Function sets ("none": no call).
InvokerOnUpdate(e) ==
    CASE e.trigger = "https" -> e.invoker
      [] e.trigger = "taskQueue" -> e.invoker
      [] e.trigger = "blocking" /\ e.authEvent -> "public"
      [] OTHER -> "none"

\* The concurrency createV2Function / updateV2Function sets (0: no setConcurrency).
ConcurrencyTarget(e, ph) ==
    IF e.platform # "gcfv2" THEN 0
    ELSE IF ph = "create"
         THEN LET mem == IF e.availableMemoryMb = 0 THEN DEFAULT_MEMORY
                         ELSE e.availableMemoryMb
              IN  IF mem >= MIN_MEMORY_FOR_CONCURRENCY /\ e.concurrency # 1
                  THEN (IF e.concurrency = 0 THEN DEFAULT_GCFV2_CONCURRENCY
                        ELSE e.concurrency)
                  ELSE 0
         ELSE e.concurrency

\* The containerConcurrency values a live service is read with.
LiveConcurrencies == {1, 40, DEFAULT_GCFV2_CONCURRENCY}

\* A service as run.getService returns it: status and the template name are
\* present (TRUE).
LiveService(cc) == [containerConcurrency |-> cc, status |-> TRUE, name |-> TRUE]

\* delete service.status; delete template.metadata.name; containerConcurrency = concurrency.
ReplacedService(svc, concurrency) ==
    [svc EXCEPT !.status = FALSE, !.name = FALSE, !.containerConcurrency = concurrency]

\* Faulty variant of setConcurrencyRead: the service is replaced even when it matches.
setConcurrencyAlwaysReplaces(S, t, live) ==
    Issue([S EXCEPT !.service[t] = live], t, "replaceService",
          ReplacedService(LiveService(live), ConcurrencyTarget(Ep(S, t), S.phase[t])))

\* setConcurrency once run.getService returned a service of concurrency live:
\* nothing more when it matches (createEndpoint / updateEndpoint go on with
\* setTrigger), else the service is replaced.
setConcurrencyRead(S, t, live) ==
    LET concurrency == ConcurrencyTarget(Ep(S, t), S.phase[t])
        S1 == [S EXCEPT !.service[t] = live]
    IN  IF live = concurrency
        THEN setTrigger(S1, t, S.phase[t] = "update")
        ELSE Issue(S1, t, "replaceService", ReplacedService(LiveService(live), concurrency))

\* After the invoker step: setConcurrency on gcfv2, then setTrigger.
AfterInvoker(S, t) ==
    IF ConcurrencyTarget(Ep(S, t), S.phase[t]) # 0
    THEN Issue(S, t, "getService", "")
    ELSE setTrigger(S, t, S.phase[t] = "update")

\* Faulty variant of AfterFunction: the trigger is wired before the invoker and
\* concurrency steps.
AfterFunctionWiresFirst(S, t) == setTrigger(S, t, S.phase[t] = "update")

\* The address in the function the resolved create/update operation returned:
\* httpsTrigger.url on gcfv1 (undefined for a function without https trigger),
\* serviceConfig.uri on gcfv2.
ResultUri(e) ==
    IF e.platform = "gcfv1"
    THEN (IF e.trigger \in {"event", "scheduled"} THEN "undefined" ELSE "httpsTrigger.url")
    ELSE "serviceConfig.uri"

\* Faulty variant of copyUri: the address is not copied back.
copyUriSkipped(S, t) == S

\* endpoint.uri = resultFunction...: the returned address is copied back.
copyUri(S, t) == [S EXCEPT !.uri[t] = ResultUri(Ep(S, t))]

\* After the function operation resolved: the address is copied, then the
\* invoker step.
AfterFunction(S0, t) ==
    LET S == copyUri(S0, t)
        invoker == IF S.phase[t] = "create" THEN InvokerOnCreate(Ep(S, t))
                   ELSE InvokerOnUpdate(Ep(S, t))
    IN  IF invoker # "none" THEN Issue(S, t, "setInvoker", invoker) ELSE AfterInvoker(S, t)

\* ------------------------------------------------------ source token scraper
\* Faulty variant of ScraperOf: one scraper shared by every changeset.
ScraperShared(c) == "us"

\* const scraper = new SourceTokenScraper(): one per applyChangeset call.
ScraperOf(c) == c

\* The function mutation call of the task's phase.
MutationApi(ph) == IF ph = "create" THEN "createFunction" ELSE "updateFunction"

\* scraper.tokenPromise(): undefined for the first caller, the pending token
\* future for every later one.
tokenPromise(S, t) ==
    LET sc == ScraperOf(Catalog[t].cs)
    IN  IF S.firstCall[sc]
        THEN Issue([S EXCEPT !.firstCall[sc] = FALSE, !.sourceToken[t] = 0],
                   t, MutationApi(S.phase[t]), "")
        ELSE [S EXCEPT !.pc[t] = "awaitToken"]

\* --------------------------------------------------------- create / update
\* createV1Function / updateV1Function up to the first await.
V1Function(S, t) ==
    IF ~sourceUrl THEN Handle(S, t, PreconditionError) ELSE tokenPromise(S, t)

\* The event topic in the function a gcfv2 submission sends: updateV2Function
\* deletes eventTrigger.pubsubTopic before it submits.
ApiFunctionTopic(e, ph) ==
    IF e.platform = "gcfv2" /\ e.pubsubTopic /\ ph # "update"
    THEN "eventTrigger.pubsubTopic" ELSE ""

\* Faulty variant of createTopicAnswered: an existing topic fails the create.
createTopicConflictFails(S, t, answer) ==
    IF answer = "exists"
    THEN Handle([S EXCEPT !.topicAnswer[t] = answer], t, rethrowAs(t, "create topic"))
    ELSE Issue([S EXCEPT !.topicAnswer[t] = answer], t, "createFunction",
               ApiFunctionTopic(Ep(S, t), "create"))

\* createV2Function once pubsub.createTopic answered "created" or "exists"
\* (409, caught): the function is submitted.
createTopicAnswered(S, t, answer) ==
    Issue([S EXCEPT !.topicAnswer[t] = answer], t, "createFunction",
          ApiFunctionTopic(Ep(S, t), "create"))

\* createV2Function / updateV2Function up to the first await.
V2Function(S, t) ==
    IF ~storage THEN Handle(S, t, PreconditionError)
    ELSE IF S.phase[t] = "create" /\ Ep(S, t).pubsubTopic
         THEN Issue(S, t, "createTopic", "")
         ELSE Issue(S, t, MutationApi(S.phase[t]), ApiFunctionTopic(Ep(S, t), S.phase[t]))

\* createEndpoint up to the first await.
createEndpoint(S0, t) ==
    LET S == [S0 EXCEPT !.phase[t] = "create", !.labels[t] = "plan+tool"]
    IN  IF Ep(S, t).platform = "gcfv1" THEN V1Function(S, t) ELSE V2Function(S, t)

\* Faulty variant of updateEndpoint: deleteAndRecreate is not looked at.
updateEndpointInPlace(S0, t) ==
    LET S == [S0 EXCEPT !.phase[t] = "update", !.labels[t] = "plan+tool"]
    IN  IF Ep(S, t).platform = "gcfv1" THEN V1Function(S, t) ELSE V2Function(S, t)

\* updateEndpoint up to the first await.
updateEndpoint(S0, t) ==
    IF IsRecreate(t)
    THEN deleteEndpoint([S0 EXCEPT !.phase[t] = "delete", !.labels[t] = "plan+tool"], t)
    ELSE LET S == [S0 EXCEPT !.phase[t] = "update", !.labels[t] = "plan+tool"]
         IN  IF Ep(S, t).platform = "gcfv1" THEN V1Function(S, t) ELSE V2Function(S, t)

\* The awaited provider call of task t resolved: run the task to its next await.
OnOk(S, t) ==
    LET api == S.pc[t]
    IN  CASE api = "createTopic" -> createTopicAnswered(S, t, "created")
          [] api \in {"createFunction", "updateFunction", "deleteFunction"} ->
               Issue(S, t, "pollOperation", "")
          [] api = "pollOperation" ->
               IF S.phase[t] = "delete"
               THEN (IF IsRecreate(t) THEN createEndpoint(S, t) ELSE Handle(S, t, NoErr))
               ELSE AfterFunction(S, t)
          [] api = "setInvoker" -> AfterInvoker(S, t)
          [] api = "replaceService" -> setTrigger(S, t, S.phase[t] = "update")
          [] api = "createOrReplaceJob" -> Handle(S, t, NoErr)
          [] api = "upsertQueue" ->
               IF Ep(S, t).invoker # "none"
               THEN Issue(S, t, "setEnqueuer", Ep(S, t).invoker)
               ELSE Handle(S, t, NoErr)
          [] api = "setEnqueuer" -> Handle(S, t, NoErr)
          [] api = "registerTrigger" -> Handle(SettleLink(S, t, "fulfilled", NoErr), t, NoErr)
          [] api = "deleteJob" -> Issue(S, t, "deleteTopic", "")
          [] api = "deleteTopic" -> deleteFunction(S, t)
          [] api = "updateQueue" -> deleteFunction(S, t)
          [] api = "unregisterTrigger" ->
               deleteFunction(SettleLink(S, t, "fulfilled", NoErr), t)

\* Faulty variant of OnFail: a rejected function submission is submitted once more.
OnFailRetries(S, t) ==
    IF S.pc[t] \in {"createFunction", "updateFunction", "deleteFunction"}
       /\ Len(S.calls[t]) < 4
    THEN Issue(S, t, S.pc[t], "")
    ELSE Handle(S, t, rethrowAs(t, OpKind(S.pc[t], S.phase[t])))

\* The awaited provider call of task t rejected: rethrowAs, caught by handle.
OnFail(S, t) ==
    LET err == rethrowAs(t, OpKind(S.pc[t], S.phase[t]))
    IN  IF S.pc[t] \in {"registerTrigger", "unregisterTrigger"}
        THEN Handle(SettleLink(S, t, "rejected", err), t, err)
        ELSE Handle(S, t, err)

\* handle(op, endpoint, fn) is called: fn runs to its first await.
Launch(S0, t) ==
    LET S == [S0 EXCEPT !.hstatus[t] = "pending"]
    IN  CASE Catalog[t].role = "create" -> createEndpoint(S, t)
          [] Catalog[t].role = "update" -> updateEndpoint(S, t)
          [] Catalog[t].role = "delete" -> deleteEndpoint([S EXCEPT !.phase[t] = "delete"], t)

\* The for loops of applyChangeset: handle is called for each endpoint in order.
RECURSIVE LaunchAll(_, _)
LaunchAll(S, ts) == IF ts = <<>> THEN S ELSE LaunchAll(Launch(S, Head(ts)), Tail(ts))

\* ------------------------------------------------- extension source helpers
\* Strings are sequences of tokens, so that the regular expression and the
\* split of the source work on what the string holds.
ArchiveSuffixes == {".zip", ".tar", ".tar.gz", ".gz", ".tgz"}

\* urlRegex.test(s): ^https:\/\/.*(\.zip|\.tar|\.tar\.gz|\.gz|\.tgz)(#.*)?$
urlRegex(s) ==
    /\ Len(s) >= 2
    /\ s[1] = "https://"
    /\ \/ s[Len(s)] \in ArchiveSuffixes
       \/ \E i \in 2..(Len(s) - 1) : s[i] \in ArchiveSuffixes /\ s[i + 1] = "#"

\* The position of the first "#" of s, 0 when it has none.
FirstHash(s) ==
    IF \E i \in 1..Len(s) : s[i] = "#"
    THEN CHOOSE i \in 1..Len(s) : s[i] = "#" /\ \A j \in 1..(i - 1) : s[j] # "#"
    ELSE 0

RECURSIVE Split(_)
\* s.split("#")
Split(s) ==
    IF FirstHash(s) = 0 THEN <<s>>
    ELSE <<SubSeq(s, 1, FirstHash(s) - 1)>> \o Split(SubSeq(s, FirstHash(s) + 1, Len(s)))

\* The value of a destructured array element that is missing.
Undefined == <<"undefined">>

\* The sources createSourceFromLocation is called with: local directories (also
\* ones that look like a link) and archive links, with and without root.
SourceUris ==
    {<<"./ext">>,
     <<"https://", "host/ext", ".txt">>,
     <<"http://", "host/ext", ".zip">>,
     <<"../ext", ".zip">>,
     <<"https://", "host/ext", ".zip", "?v=1">>,
     <<"https://", "host/ext", ".zip">>,
     <<"https://", "host/ext", ".gz", "#">>,
     <<"https://", "host/ext", ".tar.gz", "#", "sub">>,
     <<"https://", "host/ext", ".tgz", "#", "sub", "#", "x">>}

\* The object paths uploadObject returns.
ObjectPaths == {"/bucket/a", "/bucket/b"}

\* The extension ids publishExtensionVersionFromLocalSource is called with.
ExtensionIds == {"ext", "other"}

\* What getLocalExtensionSpec reads: the name in extension.yaml and whether
\* validateSpec accepts the spec.
LocalSpecs == [name : ExtensionIds, valid : BOOLEAN]

\* The HTTP status of a rejected publishExtensionVersion.
PublishFailures == {404, 500}

\* storageOrigin + objectPath + "?alt=media"
PackageUri(objectPath) == <<"storageOrigin", objectPath, "?alt=media">>

\* No helper is running.
HelperIdle ==
    [fn |-> "none", pc |-> "idle", status |-> "idle", arg |-> <<>>, calls |-> <<>>,
     objectPath |-> "", packageUri |-> <<>>, extensionRoot |-> <<>>,
     res |-> "none", err |-> "none"]

\* A call of the helper's collaborators is issued and awaited.
HelperCall(h, api, args) ==
    [h EXCEPT !.pc = api, !.calls = Append(@, [api |-> api, args |-> args])]

\* throw err
HelperThrow(h, err) == [h EXCEPT !.pc = "done", !.status = "thrown", !.err = err]

\* return res
HelperReturn(h, res) == [h EXCEPT !.pc = "done", !.status = "returned", !.res = res]

\* deleteUploadedSource(objectPath) up to its await, then the return of the caller.
deleteUploadedSource(h) ==
    IF h.objectPath # ""
    THEN HelperCall(h, "deleteObject", <<h.objectPath>>)
    ELSE HelperReturn(h, h.res)

\* Faulty variant of createSourceFromLocation: the source is always uploaded.
createSourceFromLocationAlwaysUploads(sourceUri) ==
    HelperCall([HelperIdle EXCEPT !.fn = "createSourceFromLocation", !.status = "running",
                                  !.arg = sourceUri],
               "archiveDirectory", sourceUri)

\* createSourceFromLocation(projectId, sourceUri) up to its first await.
createSourceFromLocation(sourceUri) ==
    LET h == [HelperIdle EXCEPT !.fn = "createSourceFromLocation", !.status = "running",
                                !.arg = sourceUri]
    IN  IF ~urlRegex(sourceUri)
        THEN HelperCall(h, "archiveDirectory", sourceUri)
        ELSE LET parts == Split(sourceUri)
                 packageUri == parts[1]
                 extensionRoot == IF Len(parts) >= 2 THEN parts[2] ELSE Undefined
             IN  HelperCall([h EXCEPT !.packageUri = packageUri,
                                      !.extensionRoot = extensionRoot],
                            "createSource", packageUri \o <<"|">> \o extensionRoot)

\* publishExtensionVersionFromLocalSource(publisherId, extensionId, rootDirectory)
\* up to its first await.
publishExtensionVersionFromLocalSource(extensionId) ==
    HelperCall([HelperIdle EXCEPT !.fn = "publishExtensionVersionFromLocalSource",
                                  !.status = "running", !.arg = <<extensionId>>],
               "getLocalExtensionSpec", <<"rootDirectory">>)

\* What the awaited call answered is kept with the call.
HelperAnswer(h, answer) == [h EXCEPT !.calls[Len(h.calls)].args = @ \o answer]

\* Faulty variant of afterLocalSpec: the user is prompted before any check.
afterLocalSpecPromptsFirst(h0, spec) ==
    HelperCall(HelperAnswer(h0, <<spec.name, IF spec.valid THEN "valid" ELSE "invalid">>),
               "confirmExtensionVersion", <<h0.arg[1]>>)

\* After getLocalExtensionSpec: the name check, validateSpec, then the prompt.
afterLocalSpec(h0, spec) ==
    LET h == HelperAnswer(h0, <<spec.name, IF spec.valid THEN "valid" ELSE "invalid">>)
    IN  IF spec.name # h.arg[1] THEN HelperThrow(h, "id mismatch")
        ELSE IF ~spec.valid THEN HelperThrow(h, "invalid spec")
        ELSE HelperCall(h, "confirmExtensionVersion", <<h.arg[1]>>)

\* After the prompt: without consent the function returns undefined.
afterConsent(h0, consent) ==
    LET h == HelperAnswer(h0, <<IF consent THEN "yes" ELSE "no">>)
    IN  IF ~consent THEN HelperReturn(h, "undefined")
        ELSE HelperCall(h, "archiveDirectory", <<"rootDirectory">>)

\* The error publishExtensionVersionFromLocalSource throws for a rejected
\* publishExtensionVersion: for status 404 its own, otherwise the one caught.
publishError(status) ==
    IF status = 404 THEN "publisher not found" ELSE "publishExtensionVersion"

\* After archiveAndUploadSource returned objectPath: the source is created or
\* the version published from the uploaded archive.
afterUpload(h, objectPath) ==
    LET h1 == [h EXCEPT !.objectPath = objectPath, !.packageUri = PackageUri(objectPath)]
    IN  IF h.fn = "createSourceFromLocation"
        THEN HelperCall([h1 EXCEPT !.extensionRoot = <<"/">>], "createSource",
                        PackageUri(objectPath) \o <<"|">> \o <<"/">>)
        ELSE HelperCall(h1, "publishExtensionVersion", PackageUri(objectPath))

\* ------------------------------------------------------ promptForValidInstanceId
LowercaseLetters ==
    {"a", "b", "c", "d", "e", "f", "g", "h", "i", "j", "k", "l", "m",
     "n", "o", "p", "q", "r", "s", "t", "u", "v", "w", "x", "y", "z"}

Digits == {"0", "1", "2", "3", "4", "5", "6", "7", "8", "9"}

\* instanceIdRegex.test(s): ^[a-z][a-z\d\-]*[a-z\d]$ over a sequence of characters.
instanceIdRegex(s) ==
    /\ Len(s) >= 2
    /\ s[1] \in LowercaseLetters
    /\ \A i \in 2..(Len(s) - 1) : s[i] \in LowercaseLetters \cup Digits \cup {"-"}
    /\ s[Len(s)] \in LowercaseLetters \cup Digits

\* A string of the given length with the given first, inner and last character.
Filled(len, first, inner, last) ==
    [i \in 1..len |-> IF i = 1 THEN first ELSE IF i = len THEN last ELSE inner]

\* The lengths of the ids the user enters: around both limits of the code.
EnteredLengths == {3, 6, 7, 44, 45, 46}

\* The shapes of the ids the user enters: <<first, inner, last>> character.
EnteredShapes ==
    {<<"a", "b", "z">>, <<"a", "-", "9">>, <<"1", "b", "z">>, <<"A", "b", "z">>,
     <<"a", "_", "z">>, <<"a", "b", "-">>, <<"a", "B", "0">>}

\* The ids the user enters at the prompt.
InstanceIds ==
    {Filled(len, sh[1], sh[2], sh[3]) : len \in EnteredLengths, sh \in EnteredShapes}

\* The instance ids promptForValidInstanceId is called with (the prompt's default).
DefaultInstanceIds == {Filled(7, "a", "b", "z"), Filled(6, "a", "-", "-")}

\* The number of prompts a run of promptForValidInstanceId is followed for.
MaxPrompts == 2

\* promptForValidInstanceId(instanceId) up to its first await.
promptForValidInstanceId(instanceId) ==
    HelperCall([HelperIdle EXCEPT !.fn = "promptForValidInstanceId", !.status = "running",
                                  !.arg = instanceId],
               "promptOnce", <<instanceId>>)

\* The body of the while loop after promptOnce returned newInstanceId.
afterInstanceId(h0, newInstanceId) ==
    LET h == HelperAnswer(h0, <<newInstanceId>>)
    IN  IF Len(newInstanceId) <= 6 \/ 45 <= Len(newInstanceId)
        THEN HelperCall(h, "promptOnce", <<h.arg>>)
        ELSE IF ~instanceIdRegex(newInstanceId)
        THEN HelperCall(h, "promptOnce", <<h.arg>>)
        ELSE HelperReturn(h, newInstanceId)

\* ---------------------------------------------------------------- getSourceOrigin
\* semver.valid(s): an optional "v", then major.minor.patch.
semverValid(s) ==
    LET t == IF Len(s) >= 1 /\ s[1] = "v" THEN Tail(s) ELSE s
    IN  /\ Len(t) = 5
        /\ t[1] \in Digits /\ t[3] \in Digits /\ t[5] \in Digits
        /\ t[2] = "." /\ t[4] = "."

\* The characters that separate the parts of an extension reference.
RefSeparators == {"/", "@"}

\* parseRef(s) does not throw: s is publisher/extension or
\* publisher/extension@version.
refParses(s) ==
    /\ Len(s) >= 3
    /\ s[1] \notin RefSeparators
    /\ s[2] = "/"
    /\ s[3] \notin RefSeparators
    /\ \/ Len(s) = 3
       \/ /\ Len(s) >= 5
          /\ s[4] = "@"
          /\ \A i \in 5..Len(s) : s[i] \notin RefSeparators

\* parseRef(s), for a reference that parses.
parseRef(s) ==
    [publisherId |-> <<s[1]>>, extensionId |-> <<s[3]>>,
     version |-> IF Len(s) >= 5 THEN SubSeq(s, 5, Len(s)) ELSE <<>>]

\* The inputs getSourceOrigin is called with.
SourceOrVersions ==
    {<<>>,
     <<"https://", "host/ext", ".zip">>,
     <<"https://", "host/ext", ".tar.gz", "#", "sub">>,
     <<"http://", "host/ext", ".zip">>,
     <<"1", ".", "2", ".", "3">>,
     <<"v", "1", ".", "2", ".", "3">>,
     <<"1", ".", "2">>,
     <<"pub", "/", "ext">>,
     <<"pub", "/", "ext", "@", "1", ".", "0", ".", "0">>,
     <<"pub", "/", "ext", "@">>,
     <<".", "/", "ext">>,
     <<"ext">>}

\* What a rejected backend lookup throws.
LookupErrors == {"FirebaseError", "Error"}

\* Faulty variant of sourceLookupFailed: a local path is not looked for.
sourceLookupFailedNeverLocal(h, exists, err) ==
    HelperThrow(h, IF err = "FirebaseError" THEN err
                   ELSE "Failed to determine the source origin")

\* The catch of getSourceOrigin: fs.existsSync decides between LOCAL and an error.
sourceLookupFailed(h, exists, err) ==
    LET h1 == HelperAnswer(HelperCall(h, "existsSync", h.arg),
                           <<IF exists THEN "exists" ELSE "missing">>)
    IN  IF exists THEN HelperReturn(h1, "LOCAL")
        ELSE HelperThrow(h1, IF err = "FirebaseError" THEN err
                             ELSE "Failed to determine the source origin")

\* getSourceOrigin(sourceOrVersion) up to its first await; exists is what
\* fs.existsSync answers if it is asked.
getSourceOrigin(sourceOrVersion, exists) ==
    LET h == [HelperIdle EXCEPT !.fn = "getSourceOrigin", !.status = "running",
                                !.arg = sourceOrVersion]
    IN  IF sourceOrVersion = <<>> THEN HelperReturn(h, "OFFICIAL")
        ELSE IF urlRegex(sourceOrVersion) THEN HelperReturn(h, "URL")
        ELSE IF semverValid(sourceOrVersion) THEN HelperReturn(h, "VERSION")
        ELSE IF ~refParses(sourceOrVersion)
        THEN sourceLookupFailed(h, exists, "FirebaseError")
        ELSE LET ref == parseRef(sourceOrVersion)
             IN  IF ref.publisherId # <<>> /\ ref.extensionId # <<>> /\ ref.version = <<>>
                 THEN HelperCall(h, "getExtension", sourceOrVersion)
                 ELSE IF ref.publisherId # <<>> /\ ref.extensionId # <<>>
                           /\ ref.version # <<>>
                 THEN HelperCall(h, "getExtensionVersion", sourceOrVersion)
                 ELSE HelperThrow(h, "Invalid source")

\* The origin returned once the backend knew the reference.
PublishedOrigin(api) ==
    IF api = "getExtension" THEN "PUBLISHED_EXTENSION" ELSE "PUBLISHED_EXTENSION_VERSION"

\* ---------------------------------------------------------- populateDefaultParams
\* The names of the params of the params file and of the spec.
ParamNames == {"A", "B", "C"}

\* The values of the params file; "" is what a line "A=" gives.
ParamValues == {"", "v"}

\* The params files: an object from some names to values.
ParamVars == UNION {[keys -> ParamValues] : keys \in SUBSET ParamNames}

\* The entries of a param spec: a param with or without default.
ParamEnvs(name) ==
    {[param |-> name]} \cup {[param |-> name, default |-> d] : d \in {"", "d"}}

\* The param specs: up to two entries, over the params A and B, in both orders.
ParamSpecs ==
    {<<>>}
      \cup {<<a>> : a \in ParamEnvs("A") \cup ParamEnvs("B")}
      \cup {<<a, b>> : a \in ParamEnvs("A"), b \in ParamEnvs("B")}
      \cup {<<b, a>> : a \in ParamEnvs("A"), b \in ParamEnvs("B")}

\* !obj[key]: the key is missing or its value is the empty string.
Falsy(obj, key) == key \notin DOMAIN obj \/ obj[key] = ""

RECURSIVE forEachParam(_, _, _)
\* _.forEach(paramSpec, ...) from entry i on, over the params set so far.
forEachParam(newParams, paramSpec, i) ==
    IF i > Len(paramSpec) THEN [status |-> "returned", params |-> newParams]
    ELSE LET env == paramSpec[i]
         IN  IF ~Falsy(newParams, env.param)
             THEN forEachParam(newParams, paramSpec, i + 1)
             ELSE IF ~Falsy(env, "default")
             THEN forEachParam((env.param :> env.default) @@ newParams, paramSpec, i + 1)
             ELSE [status |-> "thrown", params |-> newParams]

\* populateDefaultParams(paramVars, paramSpec): the function is synchronous.
populateDefaultParams(paramVars, paramSpec) ==
    LET h == [HelperIdle EXCEPT !.fn = "populateDefaultParams", !.status = "running",
                                !.arg = <<paramVars, paramSpec>>]
        out == forEachParam(paramVars, paramSpec, 1)
    IN  IF out.status = "returned" THEN HelperReturn(h, out.params)
        ELSE HelperThrow(h, "no default available")

\* ------------------------------------------------------------------ actions
\* No applyPlan was called yet.
FabricatorIdle ==
    /\ planStatus = "idle"
    /\ plan = {}
    /\ csStatus = [c \in CS |-> "new"]
    /\ pc = [t \in Ids |-> "idle"]
    /\ phase = [t \in Ids |-> "none"]
    /\ calls = [t \in Ids |-> <<>>]
    /\ sourceToken = [t \in Ids |-> -1]
    /\ hstatus = [t \in Ids |-> "idle"]
    /\ firstCall = [c \in CS |-> TRUE]
    /\ token = [c \in CS |-> 0]
    /\ triggerQueue = <<>>
    /\ service = [t \in Ids |-> 0]
    /\ topicAnswer = [t \in Ids |-> "none"]
    /\ inflight = [t \in Ids |-> 0]
    /\ uri = [t \in Ids |-> "plan"]
    /\ labels = [t \in Ids |-> "plan"]
    /\ deployResults = [c \in CS |-> EmptyBag]
    /\ summary = EmptyBag

Init ==
    /\ sourceUrl \in BOOLEAN
    /\ storage \in BOOLEAN
    /\ FabricatorIdle
    /\ helper = HelperIdle

RECURSIVE AllUpserts(_, _)
\* The upserts of changesets i.. of the plan, in the order applyPlan calls
\* applyChangeset for them.
AllUpserts(P, i) ==
    IF i > Len(Changesets) THEN <<>>
    ELSE Upserts(P, Changesets[i]) \o AllUpserts(P, i + 1)

\* applyPlan(plan): applyChangeset is called for every changeset, and each call
\* runs synchronously up to its await of the upserts.
ApplyPlan ==
    /\ planStatus = "idle"
    /\ \E P \in Plans :
        /\ plan' = P
        /\ Set(LaunchAll(Cur, AllUpserts(P, 1)))
    /\ planStatus' = "running"
    /\ csStatus' = [c \in CS |-> "upserting"]
    /\ UNCHANGED <<helper, sourceUrl, storage, token, summary>>

\* The provider call a task awaits resolves.
CallOk(t) ==
    /\ pc[t] \in Apis \ {"getService"}
    /\ Set(OnOk(Await(Cur, t), t))
    /\ UNCHANGED <<helper, sourceUrl, storage, planStatus, plan, csStatus, token, summary>>

\* The provider call a task awaits rejects.
CallFail(t) ==
    /\ pc[t] \in Apis
    /\ Set(OnFail(Await(Cur, t), t))
    /\ UNCHANGED <<helper, sourceUrl, storage, planStatus, plan, csStatus, token, summary>>

\* pubsub.createTopic answers 409 (already exists): treated as success.
TopicConflict(t) ==
    /\ pc[t] = "createTopic"
    /\ Set(createTopicAnswered(Await(Cur, t), t, "exists"))
    /\ UNCHANGED <<helper, sourceUrl, storage, planStatus, plan, csStatus, token, summary>>

\* run.getService returns the live service.
ServiceRead(t) ==
    /\ pc[t] = "getService"
    /\ \E live \in LiveConcurrencies : Set(setConcurrencyRead(Await(Cur, t), t, live))
    /\ UNCHANGED <<helper, sourceUrl, storage, planStatus, plan, csStatus, token, summary>>

\* A poll tick of a gcfv1 create/update reports a source token: scraper.poller
\* resolves the token future; a resolved future keeps its value.
PollTick(t) ==
    /\ pc[t] = "pollOperation"
    /\ phase[t] \in {"create", "update"}
    /\ Ep(Cur, t).platform = "gcfv1"
    /\ token[ScraperOf(Catalog[t].cs)] = 0
    /\ token' = [token EXCEPT ![ScraperOf(Catalog[t].cs)] = t]
    /\ UNCHANGED <<helper, sourceUrl, storage, planStatus, plan, csStatus, pc, phase, calls,
                   sourceToken, hstatus, firstCall, triggerQueue, service, topicAnswer,
                   inflight, uri,
                   labels, deployResults, summary>>

\* await scraper.tokenPromise() resumes with the resolved token.
TokenResolved(t) ==
    /\ pc[t] = "awaitToken"
    /\ token[ScraperOf(Catalog[t].cs)] # 0
    /\ Set(Issue([Cur EXCEPT !.sourceToken[t] = token[ScraperOf(Catalog[t].cs)]],
                 t, MutationApi(phase[t]), ""))
    /\ UNCHANGED <<helper, sourceUrl, storage, planStatus, plan, csStatus, token, summary>>

\* Faulty variant of PreviousSettled: the callback does not wait for the chain.
PreviousIgnored(q, i) == TRUE

\* The promise link i of the trigger queue was chained to has settled.
PreviousSettled(q, i) == IF i = 1 THEN TRUE ELSE q[i - 1].st \in {"fulfilled", "rejected"}

\* Promise.then: link i reacts to the settlement of the link before it.  After a
\* fulfilled link the callback runs and issues the backend call; after a rejected
\* link the callback is skipped and link i rejects with the same reason.
LinkStart(i) ==
    /\ i \in 1..Len(triggerQueue)
    /\ triggerQueue[i].st = "pending"
    /\ PreviousSettled(triggerQueue, i)
    /\ LET l == triggerQueue[i]
       IN  IF i > 1 /\ triggerQueue[i - 1].st = "rejected"
           THEN Set(Handle([Cur EXCEPT !.triggerQueue[i].st = "rejected",
                                       !.triggerQueue[i].err = triggerQueue[i - 1].err],
                           l.t, triggerQueue[i - 1].err))
           ELSE Set(Issue([Cur EXCEPT !.triggerQueue[i].st = "running"], l.t, l.kind, l.arg))
    /\ UNCHANGED <<helper, sourceUrl, storage, planStatus, plan, csStatus, token, summary>>

\* Faulty variant of AllSettled: resumes as soon as one promise settled.
AnySettled(ts) == ts = <<>> \/ \E t \in Range(ts) : hstatus[t] \in {"fulfilled", "rejected"}

\* await utils.allSettled(promises of handle)
AllSettled(ts) == \A t \in Range(ts) : hstatus[t] \in {"fulfilled", "rejected"}

\* Faulty variant of HasErrors: the errors of the upserts are not looked at.
HasErrorsIgnored(c) == FALSE

\* deployResults.find((r) => r.error)
HasErrors(c) == \E r \in BagToSet(deployResults[c]) : r.error # NoErr

\* Faulty variant of AbortedResults: aborted deletes are not reported.
AbortedResultsDropped(c) == EmptyBag

\* The results pushed for the planned deletes when an upsert failed.
AbortedResults(c) ==
    SetToBag({[endpoint |-> t, durationMs |-> 0, error |-> AbortedDeploymentError(t)] :
              t \in Range(Deletes(plan, c))})

\* applyChangeset after the upserts settled, with an error among the results:
\* the deletes are aborted and the changeset's results reach the summary.
AbortDeletes(c) ==
    /\ csStatus[c] = "upserting"
    /\ AllSettled(Upserts(plan, c))
    /\ HasErrors(c)
    /\ deployResults' = [deployResults EXCEPT ![c] = @ (+) AbortedResults(c)]
    /\ summary' = summary (+) deployResults'[c]
    /\ csStatus' = [csStatus EXCEPT ![c] = "returned"]
    /\ UNCHANGED <<helper, sourceUrl, storage, planStatus, plan, pc, phase, calls, sourceToken,
                   hstatus, firstCall, token, triggerQueue, service, topicAnswer,
                   inflight, uri,
                   labels>>

\* Faulty variant of StartDeletes: the deletes start whatever the upserts did.
StartDeletesDespiteErrors(c) ==
    /\ csStatus[c] = "upserting"
    /\ AllSettled(Upserts(plan, c))
    /\ Set(LaunchAll(Cur, Deletes(plan, c)))
    /\ csStatus' = [csStatus EXCEPT ![c] = "deleting"]
    /\ UNCHANGED <<helper, sourceUrl, storage, planStatus, plan, token, summary>>

\* applyChangeset after the upserts settled without error: the deletes start.
StartDeletes(c) ==
    /\ csStatus[c] = "upserting"
    /\ AllSettled(Upserts(plan, c))
    /\ ~HasErrors(c)
    /\ Set(LaunchAll(Cur, Deletes(plan, c)))
    /\ csStatus' = [csStatus EXCEPT ![c] = "deleting"]
    /\ UNCHANGED <<helper, sourceUrl, storage, planStatus, plan, token, summary>>

\* applyChangeset returns after the deletes settled; applyPlan pushes its results.
ChangesetReturn(c) ==
    /\ csStatus[c] = "deleting"
    /\ AllSettled(Deletes(plan, c))
    /\ summary' = summary (+) deployResults[c]
    /\ csStatus' = [csStatus EXCEPT ![c] = "returned"]
    /\ UNCHANGED <<helper, sourceUrl, storage, planStatus, plan, pc, phase, calls, sourceToken,
                   hstatus, firstCall, token, triggerQueue, service, topicAnswer,
                   inflight, uri,
                   labels, deployResults>>

\* applyPlan returns the summary once every changeset promise settled.
PlanReturn ==
    /\ planStatus = "running"
    /\ \A c \in CS : csStatus[c] = "returned"
    /\ planStatus' = "returned"
    /\ UNCHANGED <<helper, sourceUrl, storage, plan, csStatus, pc, phase, calls, sourceToken,
                   hstatus, firstCall, token, triggerQueue, service, topicAnswer,
                   inflight, uri,
                   labels, deployResults, summary>>

Next ==
    \/ ApplyPlan
    \/ \E t \in plan : CallOk(t)
    \/ \E t \in plan : CallFail(t)
    \/ \E t \in plan : TopicConflict(t)
    \/ \E t \in plan : ServiceRead(t)
    \/ \E t \in plan : PollTick(t)
    \/ \E t \in plan : TokenResolved(t)
    \/ \E i \in 1..Len(triggerQueue) : LinkStart(i)
    \/ \E c \in CS : AbortDeletes(c)
    \/ \E c \in CS : StartDeletes(c)
    \/ \E c \in CS : ChangesetReturn(c)
    \/ PlanReturn

Spec == Init /\ [][Next]_vars

\* ------------------------------------------ actions of the source helpers
fabVars ==
    <<sourceUrl, storage, planStatus, plan, csStatus, pc, phase, calls, sourceToken,
      hstatus, firstCall, token, triggerQueue, service, topicAnswer, inflight, uri,
      labels, deployResults, summary>>

HelperInit ==
    /\ sourceUrl = FALSE
    /\ storage = FALSE
    /\ FabricatorIdle
    /\ helper = HelperIdle

\* createSourceFromLocation is called.
CallCreateSource ==
    /\ helper.status = "idle"
    /\ \E sourceUri \in SourceUris : helper' = createSourceFromLocation(sourceUri)
    /\ UNCHANGED fabVars

\* publishExtensionVersionFromLocalSource is called.
CallPublish ==
    /\ helper.status = "idle"
    /\ \E extensionId \in ExtensionIds :
           helper' = publishExtensionVersionFromLocalSource(extensionId)
    /\ UNCHANGED fabVars

\* getLocalExtensionSpec returns the spec of the directory.
LocalSpecRead ==
    /\ helper.pc = "getLocalExtensionSpec"
    /\ \E spec \in LocalSpecs : helper' = afterLocalSpec(helper, spec)
    /\ UNCHANGED fabVars

\* The user answers the prompt of confirmExtensionVersion.
ConsentAnswered ==
    /\ helper.pc = "confirmExtensionVersion"
    /\ \E consent \in BOOLEAN : helper' = afterConsent(helper, consent)
    /\ UNCHANGED fabVars

\* archiveDirectory returned the zipped source: it is uploaded.
ArchiveOk ==
    /\ helper.pc = "archiveDirectory"
    /\ helper' = HelperCall(helper, "uploadObject", <<"EXTENSIONS_BUCKET_NAME">>)
    /\ UNCHANGED fabVars

\* uploadObject returned the path of the uploaded object.
UploadOk ==
    /\ helper.pc = "uploadObject"
    /\ \E objectPath \in ObjectPaths : helper' = afterUpload(helper, objectPath)
    /\ UNCHANGED fabVars

\* Reading the spec, archiving or uploading rejected: the error is thrown on.
BeforeSourceFail ==
    /\ helper.pc \in {"getLocalExtensionSpec", "archiveDirectory", "uploadObject"}
    /\ helper' = HelperThrow(HelperAnswer(helper, <<"rejected">>), helper.pc)
    /\ UNCHANGED fabVars

\* createSource resolved: clean up, then return the source.
CreateSourceOk ==
    /\ helper.pc = "createSource"
    /\ helper' = deleteUploadedSource([helper EXCEPT !.res = "source"])
    /\ UNCHANGED fabVars

\* createSource rejected: createSourceFromLocation throws.
CreateSourceFail ==
    /\ helper.pc = "createSource"
    /\ helper' = HelperThrow(helper, "createSource")
    /\ UNCHANGED fabVars

\* publishExtensionVersion resolved: clean up, then return the version.
PublishOk ==
    /\ helper.pc = "publishExtensionVersion"
    /\ helper' = deleteUploadedSource([helper EXCEPT !.res = "version"])
    /\ UNCHANGED fabVars

\* publishExtensionVersion rejected: the catch rethrows (for 404 another error).
PublishFail ==
    /\ helper.pc = "publishExtensionVersion"
    /\ \E status \in PublishFailures :
           helper' = HelperThrow(HelperAnswer(helper, <<status>>), publishError(status))
    /\ UNCHANGED fabVars

\* promptForValidInstanceId is called.
CallPromptForValidInstanceId ==
    /\ helper.status = "idle"
    /\ \E instanceId \in DefaultInstanceIds : helper' = promptForValidInstanceId(instanceId)
    /\ UNCHANGED fabVars

\* The user entered an id at the prompt.
InstanceIdEntered ==
    /\ helper.pc = "promptOnce"
    /\ Len(helper.calls) <= MaxPrompts
    /\ \E newInstanceId \in InstanceIds : helper' = afterInstanceId(helper, newInstanceId)
    /\ UNCHANGED fabVars

\* getSourceOrigin is called.
CallGetSourceOrigin ==
    /\ helper.status = "idle"
    /\ \E sourceOrVersion \in SourceOrVersions, exists \in BOOLEAN :
           helper' = getSourceOrigin(sourceOrVersion, exists)
    /\ UNCHANGED fabVars

\* The backend knows the reference.
LookupOk ==
    /\ helper.pc \in {"getExtension", "getExtensionVersion"}
    /\ helper' = HelperReturn(HelperAnswer(helper, <<"known">>), PublishedOrigin(helper.pc))
    /\ UNCHANGED fabVars

\* The backend lookup rejected.
LookupFail ==
    /\ helper.pc \in {"getExtension", "getExtensionVersion"}
    /\ \E exists \in BOOLEAN, err \in LookupErrors :
           helper' = sourceLookupFailed(HelperAnswer(helper, <<"unknown">>), exists, err)
    /\ UNCHANGED fabVars

\* populateDefaultParams is called.
CallPopulateDefaultParams ==
    /\ helper.status = "idle"
    /\ \E paramVars \in ParamVars, paramSpec \in ParamSpecs :
           helper' = populateDefaultParams(paramVars, paramSpec)
    /\ UNCHANGED fabVars

\* deleteObject settled: resolved or rejected, the caller returns its result.
DeleteObjectSettled ==
    /\ helper.pc = "deleteObject"
    /\ \E ok \in BOOLEAN :
           helper' = HelperReturn(HelperAnswer(helper, <<IF ok THEN "deleted" ELSE "failed">>),
                                  helper.res)
    /\ UNCHANGED fabVars

HelperNext ==
    \/ CallCreateSource
    \/ CallPublish
    \/ LocalSpecRead
    \/ ConsentAnswered
    \/ ArchiveOk
    \/ UploadOk
    \/ BeforeSourceFail
    \/ CreateSourceOk
    \/ CreateSourceFail
    \/ PublishOk
    \/ PublishFail
    \/ DeleteObjectSettled
    \/ CallPromptForValidInstanceId
    \/ InstanceIdEntered
    \/ CallGetSourceOrigin
    \/ LookupOk
    \/ LookupFail
    \/ CallPopulateDefaultParams

HelperSpec == HelperInit /\ [][HelperNext]_vars

\* ------------------------------------------------------------------ claims
\* The number of DeployResults for endpoint t in a bag of results.
ResultCount(B, t) ==
    BagCardinality([r \in {x \in BagToSet(B) : x.endpoint = t} |-> CopiesIn(r, B)])

\* The results of the upserts of changeset c that carry an error.
UpsertErrors(c) ==
    {r \in BagToSet(deployResults[c]) :
        r.endpoint \in Range(Upserts(plan, c)) /\ r.error # NoErr}

\* The number of times task t issued the provider call api.
CallCount(t, api) == Cardinality({k \in 1..Len(calls[t]) : calls[t][k].api = api})

\* The barrier of applyChangeset is behind changeset c.
PastBarrier(c) == csStatus[c] \in {"deleting", "returned"}

\* C1: the Summary applyPlan returns holds exactly one DeployResult for every
\* endpoint of the plan (creates, updates, deletes) and none for any other.
C1_OneResultPerEndpoint ==
    planStatus = "returned" =>
        /\ \A t \in plan : ResultCount(summary, t) = 1
        /\ \A r \in BagToSet(summary) : r.endpoint \in plan

\* A plan with a create, a delete-and-recreate update and a delete has returned:
\* the create succeeded, the update failed in a provider call and the delete
\* was aborted.
C1_Witness ==
    /\ planStatus = "returned"
    /\ plan = {1, 3, 4}
    /\ \E r \in BagToSet(summary) : r.endpoint = 1 /\ r.error = NoErr
    /\ \E r \in BagToSet(summary) : r.endpoint = 3 /\ r.error.type = "DeploymentError"
    /\ \E r \in BagToSet(summary) : r.endpoint = 4 /\ r.error = AbortedDeploymentError(4)

\* C2: once the upserts of a changeset settled, if one of them has an error every
\* planned delete has one result with durationMs 0 and an AbortedDeploymentError
\* and no call was issued for it; if none has, every planned delete is attempted.
C2_DeleteAbortRule ==
    \A c \in CS : PastBarrier(c) =>
        \A d \in Range(Deletes(plan, c)) :
            IF UpsertErrors(c) # {}
            THEN /\ CopiesIn([endpoint |-> d, durationMs |-> 0,
                              error |-> AbortedDeploymentError(d)], deployResults[c]) = 1
                 /\ ResultCount(deployResults[c], d) = 1
                 /\ calls[d] = <<>>
                 /\ hstatus[d] = "idle"
                 /\ \A i \in 1..Len(triggerQueue) : triggerQueue[i].t # d
            ELSE /\ hstatus[d] # "idle"
                 /\ \A r \in BagToSet(deployResults[c]) :
                        r.endpoint = d => r.error.type # "AbortedDeploymentError"

\* One changeset aborted its delete after a failed create while the other
\* changeset, without failure, issued the calls of its delete.
C2_Witness ==
    /\ plan = {1, 4, 7}
    /\ csStatus["us"] = "returned"
    /\ \E r \in UpsertErrors("us") : r.error.type = "DeploymentError"
    /\ PastBarrier("eu")
    /\ calls[7] # <<>>

\* C3: changeset isolation: every DeploymentError among the results of a
\* changeset stems from an operation on an endpoint of that changeset.
C3_ChangesetIsolation ==
    \A c \in CS : \A r \in BagToSet(deployResults[c]) :
        r.error.type = "DeploymentError" => Catalog[r.error.endpoint].cs = c

\* C4: the backend calls of the trigger queue run one at a time in submission
\* order: a link's call begins only after every link chained before it settled,
\* and at most one register/unregister call is in flight.
C4_TriggerQueueSerial ==
    /\ Cardinality({t \in plan : pc[t] \in {"registerTrigger", "unregisterTrigger"}}) <= 1
    /\ \A i, j \in 1..Len(triggerQueue) :
        (i < j /\ triggerQueue[j].st # "pending") =>
            triggerQueue[i].st \in {"fulfilled", "rejected"}
    /\ \A i \in 1..Len(triggerQueue) :
        triggerQueue[i].st = "running" <=> pc[triggerQueue[i].t] = triggerQueue[i].kind

\* The call of a later link is in flight after the call of an earlier link completed.
C4_Witness ==
    \E i, j \in 1..Len(triggerQueue) :
        /\ i < j
        /\ triggerQueue[i].st = "fulfilled"
        /\ triggerQueue[j].st = "running"

\* C5: every settled link of the trigger queue issued its own backend call
\* exactly once, and a rejected link carries the failure of its own call.
C5_EveryQueuedCallRuns ==
    \A i \in 1..Len(triggerQueue) :
        LET l == triggerQueue[i]
        IN  l.st \in {"fulfilled", "rejected"} =>
                /\ CallCount(l.t, l.kind) = 1
                /\ l.st = "rejected" => l.err.endpoint = l.t

\* C6: applyPlan returns: while it has not, some step is still possible (a
\* provider call in flight can settle, or a continuation can run).
C6_ApplyPlanReturns == planStatus = "running" => ENABLED Next

\* C7: no promise of handle rejects: every settled endpoint operation resolved
\* the promise and left exactly one result, and the returned summary holds the
\* results of every changeset.
C7_NeverRaises ==
    /\ \A t \in plan : hstatus[t] # "rejected"
    /\ \A t \in plan : pc[t] = "done" =>
        /\ hstatus[t] = "fulfilled"
        /\ ResultCount(deployResults[Catalog[t].cs], t) = 1
    /\ planStatus = "returned" =>
        \A c \in CS : \A r \in BagToSet(deployResults[c]) :
            CopiesIn(r, summary) = CopiesIn(r, deployResults[c])

\* applyPlan returned although an endpoint operation failed in each changeset.
C7_Witness ==
    /\ planStatus = "returned"
    /\ \A c \in CS : \E r \in UpsertErrors(c) : r.error.type = "DeploymentError"

\* C8: within a changeset at most one gcfv1 create/update is submitted without a
\* token; every other one is submitted with the token resolved for its
\* changeset, which an operation of the same changeset, submitted before it,
\* reported; no operation waits for a token unless another was the first caller.
C8_SourceTokenReuse ==
    \A c \in CS :
        LET mine == {t \in plan : Catalog[t].cs = c}
        IN  /\ Cardinality({t \in mine : sourceToken[t] = 0}) <= 1
            /\ \A t \in mine : sourceToken[t] > 0 =>
                /\ sourceToken[t] = token[c]
                /\ sourceToken[t] \in mine \ {t}
                /\ CallCount(sourceToken[t], "pollOperation") = 1
            /\ \A t \in mine : pc[t] = "awaitToken" =>
                \E u \in mine \ {t} : sourceToken[u] = 0
            /\ \A t \in mine :
                (CallCount(t, "createFunction") + CallCount(t, "updateFunction") > 0
                 /\ Catalog[t].ep.platform = "gcfv1") => sourceToken[t] # -1

\* A second gcfv1 operation was submitted with the token the first one reported,
\* while the other changeset has an operation of its own.
C8_Witness ==
    /\ sourceToken[2] = 1
    /\ pc[2] = "pollOperation"
    /\ sourceToken[6] = 0

\* C9: all upserts of a changeset are launched together when applyChangeset is
\* called; past the barrier every upsert has settled with a result; nothing is
\* done for a planned delete before every upsert of its changeset settled.
C9_WaitAllBarrier ==
    \A c \in CS :
        /\ csStatus[c] # "new" => \A u \in Range(Upserts(plan, c)) : hstatus[u] # "idle"
        /\ PastBarrier(c) => \A u \in Range(Upserts(plan, c)) :
            /\ pc[u] = "done"
            /\ ResultCount(deployResults[c], u) = 1
        /\ \A d \in Range(Deletes(plan, c)) :
            (hstatus[d] # "idle" \/ calls[d] # <<>>
             \/ \E i \in 1..Len(triggerQueue) : triggerQueue[i].t = d)
            => \A u \in Range(Upserts(plan, c)) : pc[u] = "done"

\* A sibling upsert is still in flight after another upsert of the changeset
\* failed, and the planned delete has not been touched.
C9_Witness ==
    /\ plan = {1, 2, 4}
    /\ \E r \in UpsertErrors("us") : r.endpoint = 1
    /\ pc[2] \in Apis
    /\ hstatus[4] = "idle"

\* C10: every error of an attempted operation stored in a DeployResult is a
\* DeploymentError carrying endpoint, opKind and cause.
C10_OnlyDeploymentErrors ==
    \A c \in CS : \A r \in BagToSet(deployResults[c]) :
        r.error.type \in {"none", "AbortedDeploymentError"}
        \/ (r.error.type = "DeploymentError" /\ r.error.endpoint \in Ids
            /\ r.error.op # "" /\ r.error.cause # "")

\* The source locator the platform of endpoint t needs is not set.
MissingSource(t) ==
    IF Catalog[t].ep.platform = "gcfv1" THEN ~sourceUrl ELSE ~storage

\* C11: a create or update of an endpoint whose source locator is missing issues
\* no provider call for the endpoint, and the precondition failure is not
\* stored as the error of a DeployResult.
C11_PreconditionNotWrapped ==
    \A t \in plan :
        (Catalog[t].role \in {"create", "update"} /\ MissingSource(t) /\ ~IsRecreate(t)) =>
            /\ calls[t] = <<>>
            /\ \A r \in BagToSet(deployResults[Catalog[t].cs]) :
                   r.endpoint = t => r.error # PreconditionError

\* The DeployResults of endpoint t in its changeset.
ResultsOf(t) == {r \in BagToSet(deployResults[Catalog[t].cs]) : r.endpoint = t}

\* The upserts of the plan with the given trigger on the given platform.
UpsertsOf(platform, trigger) ==
    {t \in plan : /\ Catalog[t].role \in {"create", "update"}
                  /\ Catalog[t].ep.platform = platform
                  /\ Catalog[t].ep.trigger = trigger}

FunctionResolved(t) ==
    \E k \in 2..Len(calls[t]) :
        /\ calls[t][k].api = "pollOperation"
        /\ calls[t][k - 1].api \in {"createFunction", "updateFunction"}
        /\ \/ k < Len(calls[t])
           \/ pc[t] = "queued"
           \/ /\ pc[t] = "done"
              /\ \A r \in ResultsOf(t) : r.error # rethrowAs(t, phase[t])

\* The set-invoker calls of task t, as positions in calls[t].
InvokerCalls(t) == {k \in 1..Len(calls[t]) : calls[t][k].api = "setInvoker"}

\* C13: creating an https endpoint (either platform): once the function create
\* operation resolved, exactly one set-invoker call is issued, right after it,
\* with the specified invoker or with public when none is specified; with a
\* private invoker no set-invoker call is issued.
C13_HttpsInvokerOnCreate ==
    \A t \in plan :
        (Catalog[t].role = "create" /\ Catalog[t].ep.trigger = "https") =>
            LET e == Catalog[t].ep
            IN  IF e.invoker = "private"
                THEN InvokerCalls(t) = {}
                ELSE /\ Cardinality(InvokerCalls(t)) = (IF FunctionResolved(t) THEN 1 ELSE 0)
                     /\ \A k \in InvokerCalls(t) :
                            /\ k > 1
                            /\ calls[t][k - 1].api = "pollOperation"
                            /\ calls[t][k].arg =
                                   (IF e.invoker = "none" THEN "public" ELSE e.invoker)

\* A gcfv1 https endpoint without invoker was created and made public.
C13_Witness ==
    /\ 1 \in plan
    /\ pc[1] = "done"
    /\ \E k \in InvokerCalls(1) : calls[1][k].arg = "public"
    /\ \E r \in ResultsOf(1) : r.error = NoErr

\* Task t ended with a DeployResult without error.
Succeeded(t) == pc[t] = "done" /\ \E r \in ResultsOf(t) : r.error = NoErr

\* C14: a task-queue endpoint is never made public by default.  Created or
\* updated without invoker: no set-invoker and no set-enqueuer call is issued,
\* and the queue upsert is.  With an invoker: set-enqueuer is issued once, with
\* that invoker, right after the queue upsert.
C14_TaskQueueInvoker ==
    \A t \in plan :
        (Catalog[t].role \in {"create", "update"} /\ Catalog[t].ep.trigger = "taskQueue") =>
            LET e == Catalog[t].ep
                enq == {k \in 1..Len(calls[t]) : calls[t][k].api = "setEnqueuer"}
            IN  /\ CallCount(t, "upsertQueue") <= 1
                /\ Succeeded(t) => CallCount(t, "upsertQueue") = 1
                /\ IF e.invoker = "none"
                   THEN /\ InvokerCalls(t) = {}
                        /\ enq = {}
                        /\ (FunctionResolved(t) /\ ConcurrencyTarget(e, phase[t]) = 0) =>
                               CallCount(t, "upsertQueue") = 1
                   ELSE /\ Cardinality(enq) <= 1
                        /\ Succeeded(t) => Cardinality(enq) = 1
                        /\ \A k \in enq : /\ k > 1
                                          /\ calls[t][k - 1].api = "upsertQueue"
                                          /\ calls[t][k].arg = e.invoker
                        /\ (pc[t] = "done" /\ calls[t] # <<>>
                            /\ calls[t][Len(calls[t])].api = "upsertQueue") =>
                               \A r \in ResultsOf(t) :
                                   r.error = rethrowAs(t, "upsert task queue")

\* A gcfv1 task-queue endpoint without invoker was created: its queue was
\* upserted and the operation succeeded.
C14_Witness ==
    /\ 13 \in plan
    /\ Succeeded(13)
    /\ CallCount(13, "upsertQueue") = 1

\* C15: every successful create and every successful update of a callable
\* endpoint or of an auth-blocking endpoint issued a set-invoker call with
\* public after the function operation resolved.
C15_ForcedPublicInvoker ==
    \A t \in plan :
        LET e == Catalog[t].ep
        IN  (/\ Catalog[t].role \in {"create", "update"}
             /\ e.trigger = "callable" \/ (e.trigger = "blocking" /\ e.authEvent)
             /\ Succeeded(t)) =>
                \E k \in InvokerCalls(t) :
                    /\ k > 1
                    /\ calls[t][k - 1].api = "pollOperation"
                    /\ calls[t][k].arg = "public"

\* The replaceService calls of task t, as positions in calls[t].
ReplaceCalls(t) == {k \in 1..Len(calls[t]) : calls[t][k].api = "replaceService"}

\* C16: setConcurrency reads the live service once; when the service already has
\* the target concurrency no replaceService call is issued, otherwise exactly
\* one, right after the read, whose service has containerConcurrency = target
\* and neither status nor template name; a failed read or replace is reported
\* as a DeploymentError 'set concurrency'.
C16_SetConcurrency ==
    \A t \in plan :
        LET target == ConcurrencyTarget(Catalog[t].ep, phase[t])
        IN  /\ CallCount(t, "getService") <= 1
            /\ service[t] = 0 => ReplaceCalls(t) = {}
            /\ service[t] # 0 =>
                /\ CallCount(t, "getService") = 1
                /\ Cardinality(ReplaceCalls(t)) = (IF service[t] = target THEN 0 ELSE 1)
            /\ \A k \in ReplaceCalls(t) :
                /\ k > 1
                /\ calls[t][k - 1].api = "getService"
                /\ calls[t][k].arg = [containerConcurrency |-> target,
                                      status |-> FALSE, name |-> FALSE]
            /\ (/\ pc[t] = "done"
                /\ calls[t] # <<>>
                /\ calls[t][Len(calls[t])].api \in {"getService", "replaceService"}) =>
                   \A r \in ResultsOf(t) :
                       /\ (r.error.cause = "provider" /\ r.error.endpoint = t) =>
                              r.error = rethrowAs(t, "set concurrency")
                       /\ (service[t] = 0) => r.error = rethrowAs(t, "set concurrency")

\* A service read with another concurrency was replaced and the create went on.
C16_Witness ==
    /\ 22 \in plan
    /\ service[22] = DEFAULT_GCFV2_CONCURRENCY
    /\ ReplaceCalls(22) # {}
    /\ CallCount(22, "upsertQueue") = 1

\* The concurrency rule as stated for gcfv2: the concurrency to set (0: none).
ConcurrencyRule(e) ==
    LET mem == IF e.availableMemoryMb = 0 THEN DEFAULT_MEMORY ELSE e.availableMemoryMb
    IN  IF e.platform = "gcfv2" /\ mem >= MIN_MEMORY_FOR_CONCURRENCY /\ e.concurrency # 1
        THEN (IF e.concurrency = 0 THEN DEFAULT_GCFV2_CONCURRENCY ELSE e.concurrency)
        ELSE 0

\* C17: on create and on update, setConcurrency is invoked (its service read is
\* issued) only when the concurrency rule asks for it, it is invoked whenever
\* the rule asks for it and the operation succeeded, and a replaced service
\* gets the concurrency of the rule; never for gcfv1.
C17_ConcurrencyRule ==
    \A t \in plan :
        Catalog[t].role \in {"create", "update"} =>
            LET e == Catalog[t].ep
            IN  /\ CallCount(t, "getService") > 0 => ConcurrencyRule(e) # 0
                /\ (Succeeded(t) /\ ConcurrencyRule(e) # 0) => CallCount(t, "getService") = 1
                /\ \A k \in ReplaceCalls(t) :
                       calls[t][k].arg.containerConcurrency = ConcurrencyRule(e)

\* The provider calls that wire a trigger up.
WireApis == {"createOrReplaceJob", "upsertQueue", "setEnqueuer", "registerTrigger"}

\* The trigger wire-up calls of task t, as positions in calls[t].
WireCalls(t) == {k \in 1..Len(calls[t]) : calls[t][k].api \in WireApis}

\* The registrations task t chained to the trigger queue.
RegisterLinks(t) ==
    {i \in 1..Len(triggerQueue) :
        triggerQueue[i].t = t /\ triggerQueue[i].kind = "registerTrigger"}

\* The number of calls of api that task t issued before position k.
CallsBefore(t, api, k) == Cardinality({j \in 1..(k - 1) : calls[t][j].api = api})

\* C18: for every create and update, a trigger wire-up call is issued only after
\* the function create/update operation resolved and after the invoker and
\* concurrency calls the endpoint needs (a call followed by another call has
\* succeeded); a blocking registration is chained only then, as a create by
\* createEndpoint and as an update by a plain update; an endpoint whose
\* function, invoker or concurrency step failed has no wire-up call and no
\* registration.
C18_WiringAfterFunction ==
    \A t \in plan :
        Catalog[t].role \in {"create", "update"} =>
            LET e == Catalog[t].ep
                plain == Catalog[t].role = "update" /\ ~IsRecreate(t)
                invoker == IF plain THEN InvokerOnUpdate(e) ELSE InvokerOnCreate(e)
                target == ConcurrencyTarget(e, IF plain THEN "update" ELSE "create")
            IN  /\ \A k \in WireCalls(t) :
                    /\ \E j \in 2..(k - 1) :
                           /\ calls[t][j].api = "pollOperation"
                           /\ calls[t][j - 1].api = MutationApi(IF plain THEN "update" ELSE "create")
                    /\ CallsBefore(t, "setInvoker", k) = (IF invoker = "none" THEN 0 ELSE 1)
                    /\ CallsBefore(t, "getService", k) = (IF target = 0 THEN 0 ELSE 1)
                    /\ CallsBefore(t, "replaceService", k) =
                           (IF target = 0 \/ service[t] = target THEN 0 ELSE 1)
                /\ \A i \in RegisterLinks(t) :
                    /\ FunctionResolved(t)
                    /\ CallCount(t, "setInvoker") = (IF invoker = "none" THEN 0 ELSE 1)
                    /\ CallCount(t, "getService") = (IF target = 0 THEN 0 ELSE 1)
                    /\ triggerQueue[i].arg = (IF plain THEN "update" ELSE "create")
                /\ (/\ pc[t] = "done"
                    /\ \E r \in ResultsOf(t) :
                           \/ r.error = PreconditionError
                           \/ \E op \in {"create", "update", "create topic", "set concurrency"} :
                                  r.error = rethrowAs(t, op)
                           \/ /\ r.error = rethrowAs(t, "set invoker")
                              /\ calls[t][Len(calls[t])].api = "setInvoker") =>
                       WireCalls(t) = {} /\ RegisterLinks(t) = {}

\* A plain update of a gcfv2 auth-blocking endpoint registered its trigger as an
\* update, after its function update, invoker and concurrency calls.
C18_Witness ==
    /\ 17 \in plan
    /\ Succeeded(17)
    /\ \E i \in RegisterLinks(17) :
           triggerQueue[i].arg = "update" /\ triggerQueue[i].st = "fulfilled"
    /\ ReplaceCalls(17) # {}

\* The endpoint task t deletes: its own, or the old one of a delete-and-recreate.
Deleted(t) == IF IsRecreate(t) THEN Catalog[t].old ELSE Catalog[t].ep

\* The provider calls of the trigger tear-down of endpoint e, in order.
TearDown(e) ==
    CASE e.trigger = "scheduled" /\ e.platform = "gcfv1" -> <<"deleteJob", "deleteTopic">>
      [] e.trigger = "taskQueue" -> <<"updateQueue">>
      [] e.trigger = "blocking" -> <<"unregisterTrigger">>
      [] OTHER -> <<>>

\* The errors the tear-down of task t can reject with.
TearDownErrors(t) ==
    {rethrowAs(t, op) : op \in {"delete schedule", "delete topic", "disable task queue",
                                "unregister blocking trigger"}}
    \cup {DeploymentError(t, "delete schedule", "Not implemented")}
    \cup {triggerQueue[i].err : i \in {j \in 1..Len(triggerQueue) :
                                          /\ triggerQueue[j].t = t
                                          /\ triggerQueue[j].kind = "unregisterTrigger"
                                          /\ triggerQueue[j].st = "rejected"}}

\* The function delete calls of task t, as positions in calls[t].
DeleteCalls(t) == {k \in 1..Len(calls[t]) : calls[t][k].api = "deleteFunction"}

\* C19: the function delete of an endpoint is issued at most once and only after
\* every call of its trigger tear-down was issued and succeeded (a blocking
\* unregistration: its link fulfilled); a scheduled gcfv2 endpoint never gets a
\* function delete; an endpoint operation that ended without issuing the
\* function delete carries the error its tear-down rejected with.
C19_DeleteAfterTearDown ==
    \A t \in plan :
        (Catalog[t].role = "delete" \/ IsRecreate(t)) =>
            LET e == Deleted(t)
            IN  /\ Cardinality(DeleteCalls(t)) <= 1
                /\ \A k \in DeleteCalls(t) :
                    /\ [j \in 1..(k - 1) |-> calls[t][j].api] = TearDown(e)
                    /\ e.trigger = "blocking" =>
                           \E i \in 1..Len(triggerQueue) :
                               /\ triggerQueue[i].t = t
                               /\ triggerQueue[i].kind = "unregisterTrigger"
                               /\ triggerQueue[i].st = "fulfilled"
                /\ (e.trigger = "scheduled" /\ e.platform = "gcfv2") =>
                    /\ calls[t] = <<>>
                    /\ hstatus[t] # "idle" =>
                           ResultsOf(t) = {[endpoint |-> t, durationMs |-> 0,
                                            error |-> DeploymentError(t, "delete schedule",
                                                                      "Not implemented")]}
                /\ (pc[t] = "done" /\ DeleteCalls(t) = {}) =>
                       \A r \in ResultsOf(t) : r.error \in TearDownErrors(t)

\* Of two planned deletes one disabled its queue and deleted its function; the
\* other failed to unregister its blocking trigger and issued no function delete.
C19_Witness ==
    /\ plan = {4, 20}
    /\ Succeeded(20)
    /\ [j \in 1..Len(calls[20]) |-> calls[20][j].api] =
           <<"updateQueue", "deleteFunction", "pollOperation">>
    /\ pc[4] = "done"
    /\ DeleteCalls(4) = {}
    /\ \E r \in ResultsOf(4) : r.error = rethrowAs(4, "unregister blocking trigger")

\* The calls of a completed deleteEndpoint of the old endpoint of task t.
OldDeleted(t) == TearDown(Catalog[t].old) \o <<"deleteFunction", "pollOperation">>

\* C20: an update with deleteAndRecreate issues no platform update call; the
\* first call of the create of the new endpoint is issued only after the
\* tear-down, the function delete and its poll of the old one succeeded; after
\* a failed delete no create call is issued; a blocking registration is chained
\* as a create; the update leaves exactly one DeployResult, for its endpoint,
\* once it ended, which is without error only if the delete and the create
\* both succeeded.
C20_DeleteAndRecreate ==
    \A t \in plan :
        IsRecreate(t) =>
            LET n == Len(OldDeleted(t))
                creates == {k \in 1..Len(calls[t]) :
                               calls[t][k].api \in {"createTopic", "createFunction"}}
            IN  /\ CallCount(t, "updateFunction") = 0
                /\ \A k \in creates :
                    /\ k > n
                    /\ [j \in 1..n |-> calls[t][j].api] = OldDeleted(t)
                /\ phase[t] = "create" =>
                       /\ Len(calls[t]) >= n
                       /\ [j \in 1..n |-> calls[t][j].api] = OldDeleted(t)
                /\ (/\ pc[t] = "done"
                    /\ \E r \in ResultsOf(t) :
                           r.error \in TearDownErrors(t) \cup {rethrowAs(t, "delete")}) =>
                       creates = {}
                /\ \A i \in RegisterLinks(t) : triggerQueue[i].arg = "create"
                /\ ResultCount(deployResults[Catalog[t].cs], t) = (IF pc[t] = "done" THEN 1 ELSE 0)
                /\ Succeeded(t) =>
                    /\ Len(calls[t]) >= n + 2
                    /\ calls[t][n + 1].api = "createFunction"
                    /\ calls[t][n + 2].api = "pollOperation"

\* A gcfv1 auth-blocking endpoint was deleted and re-created on gcfv2: the old
\* trigger was unregistered and the new one registered as a create.
C20_Witness ==
    /\ 21 \in plan
    /\ Succeeded(21)
    /\ \E i \in RegisterLinks(21) :
           triggerQueue[i].arg = "create" /\ triggerQueue[i].st = "fulfilled"
    /\ CallCount(21, "deleteFunction") = 1

\* C21: within one applyPlan every endpoint gets at most one function create
\* submission, at most one update submission and at most one delete
\* submission, each polled at most once, also after a failure.
C21_NoRetry ==
    \A t \in plan :
        /\ CallCount(t, "createFunction") <= 1
        /\ CallCount(t, "updateFunction") <= 1
        /\ CallCount(t, "deleteFunction") <= 1
        /\ CallCount(t, "pollOperation") <=
               CallCount(t, "createFunction") + CallCount(t, "updateFunction")
               + CallCount(t, "deleteFunction")

\* The create submission of an endpoint was rejected and its operation ended
\* with that failure after the one submission.
C21_Witness ==
    /\ 1 \in plan
    /\ pc[1] = "done"
    /\ [j \in 1..Len(calls[1]) |-> calls[1][j].api] = <<"createFunction">>
    /\ \E r \in ResultsOf(1) : r.error = rethrowAs(1, "create")

\* The provider calls that tear a trigger down or delete a function.
DeleteApis == {"deleteFunction", "deleteJob", "deleteTopic", "updateQueue", "unregisterTrigger"}

\* The tear-down and delete calls of task t, as positions in calls[t].
UndoCalls(t) == {k \in 1..Len(calls[t]) : calls[t][k].api \in DeleteApis}

\* The unregistrations task t chained to the trigger queue.
UnregisterLinks(t) ==
    {i \in 1..Len(triggerQueue) :
        triggerQueue[i].t = t /\ triggerQueue[i].kind = "unregisterTrigger"}

\* C22: a tear-down or function delete call is issued (or an unregistration
\* chained) only for a planned delete of a changeset whose upserts all ended
\* without error, or as the delete of the old endpoint of a delete-and-recreate
\* update, before its create; an endpoint that is created or updated in place
\* never gets one, also when one of its steps failed.
C22_NoRollback ==
    \A t \in plan :
        (UndoCalls(t) # {} \/ UnregisterLinks(t) # {}) =>
            IF Catalog[t].role = "delete"
            THEN /\ UpsertErrors(Catalog[t].cs) = {}
                 /\ \A u \in Range(Upserts(plan, Catalog[t].cs)) : pc[u] = "done"
            ELSE /\ IsRecreate(t)
                 /\ \A k \in UndoCalls(t) : k <= Len(OldDeleted(t))
                 /\ Cardinality(UnregisterLinks(t)) <= 1
                 /\ \A i \in UnregisterLinks(t), j \in RegisterLinks(t) : i < j

\* A create failed in its trigger registration after the function was created
\* and made public: nothing was deleted, and the planned delete was aborted.
C22_Witness ==
    /\ plan = {2, 4}
    /\ csStatus["us"] = "returned"
    /\ \E r \in ResultsOf(2) : r.error = rethrowAs(2, "register blocking trigger")
    /\ CallCount(2, "setInvoker") = 1
    /\ UndoCalls(2) = {}
    /\ calls[4] = <<>>

\* C23: once the function create/update operation of an endpoint resolved,
\* endpoint.uri is the address the operation returned, and it is before any
\* invoker, concurrency or trigger call is issued; until then, and when the
\* operation failed, endpoint.uri is as the plan gave it; a planned delete
\* leaves uri and labels as the plan gave them.
C23_UriSideChannel ==
    \A t \in plan :
        IF Catalog[t].role = "delete"
        THEN uri[t] = "plan" /\ labels[t] = "plan"
        ELSE /\ uri[t] = (IF FunctionResolved(t) THEN ResultUri(Catalog[t].ep) ELSE "plan")
             /\ (InvokerCalls(t) # {} \/ CallCount(t, "getService") > 0
                 \/ WireCalls(t) # {} \/ RegisterLinks(t) # {}) =>
                    uri[t] = ResultUri(Catalog[t].ep)
             /\ hstatus[t] # "idle" => labels[t] = "plan+tool"

\* A plain update got the address its operation returned; the planned delete of
\* the changeset ran and its uri and labels stayed as the plan gave them.
C23_Witness ==
    /\ plan = {4, 15}
    /\ uri[15] = "httpsTrigger.url"
    /\ Succeeded(15)
    /\ Succeeded(4)
    /\ uri[4] = "plan"

\* C24: at most one provider call is in flight for any endpoint of the plan, and
\* one is exactly while its task awaits a call: the calls of one endpoint are
\* issued one after the other.
C24_OneCallPerEndpoint ==
    \A t \in plan :
        /\ inflight[t] <= 1
        /\ inflight[t] = 1 <=> pc[t] \in Apis

\* Calls of two endpoints are in flight together, the second call of one of them
\* after its first one settled.
C24_Witness ==
    /\ inflight[1] = 1
    /\ inflight[5] = 1
    /\ Len(calls[1]) = 2

\* The function submissions and their operation polling.
FunctionOps == {"createFunction", "updateFunction", "deleteFunction", "pollOperation"}

\* The invoker, topic, schedule-job, task-queue and blocking-trigger calls.
ControlOps ==
    {"setInvoker", "createTopic", "deleteTopic", "createOrReplaceJob", "deleteJob",
     "upsertQueue", "setEnqueuer", "updateQueue", "registerTrigger", "unregisterTrigger"}

TopicCalls(t) == {k \in 1..Len(calls[t]) : calls[t][k].api = "createTopic"}

\* C26: a gcfv2 create of a function with a pubsub topic issues the topic create
\* first and the function create only once it answered, as created or as
\* already existing (409); any other answer ends the create with a
\* DeploymentError 'create topic' and without function create; a gcfv2 update
\* creates no topic and submits the function without its topic.
C26_TopicOnCreate ==
    \A t \in plan :
        LET e == Catalog[t].ep
        IN  (e.platform = "gcfv2" /\ Catalog[t].role \in {"create", "update"}) =>
            IF e.pubsubTopic /\ (Catalog[t].role = "create" \/ IsRecreate(t))
            THEN /\ Cardinality(TopicCalls(t)) <= 1
                 /\ \A k \in 1..Len(calls[t]) : calls[t][k].api = "createFunction" =>
                        /\ k - 1 \in TopicCalls(t)
                        /\ calls[t][k].arg = "eventTrigger.pubsubTopic"
                 /\ CallCount(t, "createFunction") =
                        (IF topicAnswer[t] \in {"created", "exists"} THEN 1 ELSE 0)
                 /\ (pc[t] = "done" /\ calls[t] # <<>> /\ Len(calls[t]) \in TopicCalls(t)) =>
                        /\ topicAnswer[t] = "none"
                        /\ ResultsOf(t) = {[endpoint |-> t, durationMs |-> Len(calls[t]),
                                            error |-> rethrowAs(t, "create topic")]}
            ELSE /\ TopicCalls(t) = {}
                 /\ topicAnswer[t] = "none"
                 /\ \A k \in 1..Len(calls[t]) : calls[t][k].api = "updateFunction" =>
                        calls[t][k].arg = ""

\* The topic of a gcfv2 create already existed and the function was created.
C26_Witness ==
    /\ 8 \in plan
    /\ topicAnswer[8] = "exists"
    /\ Succeeded(8)

\* The provider calls task t issued, by name and in order.
ApisOf(t) == [j \in 1..Len(calls[t]) |-> calls[t][j].api]

\* C27: the tear-down of a scheduled gcfv1 endpoint deletes the job first and
\* the topic only after the job deletion succeeded; after a failed job deletion
\* neither the topic delete nor the function delete is issued, after a failed
\* topic deletion the function delete is not issued.
C27_ScheduleV1TearDown ==
    \A t \in plan :
        (/\ Catalog[t].role = "delete" \/ IsRecreate(t)
         /\ Deleted(t).trigger = "scheduled"
         /\ Deleted(t).platform = "gcfv1") =>
            /\ CallCount(t, "deleteJob") <= 1
            /\ CallCount(t, "deleteTopic") <= 1
            /\ \A k \in 1..Len(calls[t]) :
                /\ calls[t][k].api = "deleteJob" => k = 1
                /\ calls[t][k].api = "deleteTopic" => k = 2 /\ calls[t][1].api = "deleteJob"
                /\ calls[t][k].api = "deleteFunction" =>
                       k = 3 /\ calls[t][1].api = "deleteJob" /\ calls[t][2].api = "deleteTopic"
            /\ pc[t] = "done" =>
                \A r \in ResultsOf(t) :
                    /\ r.error = rethrowAs(t, "delete schedule") => ApisOf(t) = <<"deleteJob">>
                    /\ r.error = rethrowAs(t, "delete topic") =>
                           ApisOf(t) = <<"deleteJob", "deleteTopic">>

\* The job of a scheduled gcfv1 endpoint was deleted, the deletion of its topic
\* failed and the function was not deleted.
C27_Witness ==
    /\ 25 \in plan
    /\ pc[25] = "done"
    /\ ApisOf(25) = <<"deleteJob", "deleteTopic">>
    /\ \E r \in ResultsOf(25) : r.error = rethrowAs(25, "delete topic")

\* C28: every DeploymentError in a DeployResult names the endpoint of the result
\* and an operation that was attempted for that endpoint: a provider call of
\* that kind was issued for it, or the unimplemented schedule strategy rejected.
C28_ErrorAttribution ==
    \A c \in CS : \A r \in BagToSet(deployResults[c]) :
        r.error.type = "DeploymentError" =>
            /\ r.error.endpoint = r.endpoint
            /\ \/ r.error.cause = "Not implemented"
               \/ \E k \in 1..Len(calls[r.endpoint]) :
                      \E ph \in {"create", "update", "delete"} :
                          OpKind(calls[r.endpoint][k].api, ph) = r.error.op

\* The positions of the helper's calls of one collaborator.
HelperCalls(api) == {i \in 1..Len(helper.calls) : helper.calls[i].api = api}

\* The collaborators the running helper called, in call order.
HelperApis == [i \in 1..Len(helper.calls) |-> helper.calls[i].api]

\* s is a prefix of t.
IsPrefix(s, t) == Len(s) <= Len(t) /\ SubSeq(t, 1, Len(s)) = s

\* The helper ended, by return or by throw.
HelperEnded == helper.status \in {"returned", "thrown"}

\* C29: createSourceFromLocation archives and uploads a source that is not an
\* archive link, creates the source from the uploaded object with root "/" and
\* deletes the object after the source was created; for an archive link it
\* uploads nothing and deletes nothing; a rejected clean-up delete is swallowed
\* and the created source is returned.
C29_CreateSourceFromLocation ==
    helper.fn = "createSourceFromLocation" =>
        /\ ~urlRegex(helper.arg) =>
              /\ IsPrefix(HelperApis, <<"archiveDirectory", "uploadObject",
                                        "createSource", "deleteObject">>)
              /\ \A i \in HelperCalls("createSource") :
                     helper.calls[i].args = PackageUri(helper.objectPath) \o <<"|", "/">>
              /\ \A i \in HelperCalls("deleteObject") :
                     /\ helper.calls[i].args[1] = helper.objectPath
                     /\ helper.res = "source"
              /\ helper.status = "returned" => HelperCalls("deleteObject") # {}
        /\ urlRegex(helper.arg) =>
              /\ IsPrefix(HelperApis, <<"createSource">>)
              /\ helper.objectPath = ""
              /\ \A i \in HelperCalls("createSource") :
                     helper.calls[i].args[1] = "https://"
        /\ helper.status = "returned" => helper.res = "source"
        /\ \A i \in HelperCalls("deleteObject") :
               Len(helper.calls[i].args) = 2 => helper.status = "returned"

\* A local directory was uploaded, the source created, the delete of the upload
\* rejected, and the source returned all the same.
C29_Witness ==
    /\ helper.fn = "createSourceFromLocation"
    /\ helper.arg = <<"./ext">>
    /\ helper.status = "returned"
    /\ helper.res = "source"
    /\ \E i \in HelperCalls("deleteObject") : helper.calls[i].args[2] = "failed"

\* C30: once createSourceFromLocation or publishExtensionVersionFromLocalSource
\* uploaded a source archive, a deleteObject call for that archive is issued
\* before the function returns or throws.
C30_NoLeakedUpload ==
    (helper.objectPath # "" /\ HelperEnded) =>
        \E i \in HelperCalls("deleteObject") : helper.calls[i].args[1] = helper.objectPath

\* The helper's call of one collaborator (each is called at most once).
HelperCallOf(api) == helper.calls[CHOOSE i \in HelperCalls(api) : TRUE]

\* C31: publishExtensionVersionFromLocalSource compares the extension id with
\* the spec name and validates the spec before it prompts; after a mismatch, a
\* failed validation or a declined prompt nothing is uploaded or published (a
\* declined prompt returns undefined without error); the upload comes before
\* the publish and a failed upload prevents it; a publish rejected with status
\* 404 is reported as an unknown publisher.
C31_PublishStepOrder ==
    helper.fn = "publishExtensionVersionFromLocalSource" =>
        /\ IsPrefix(HelperApis, <<"getLocalExtensionSpec", "confirmExtensionVersion",
                                  "archiveDirectory", "uploadObject",
                                  "publishExtensionVersion", "deleteObject">>)
        /\ HelperCalls("confirmExtensionVersion") # {} =>
              HelperCallOf("getLocalExtensionSpec").args =
                  <<"rootDirectory", helper.arg[1], "valid">>
        /\ (/\ HelperCalls("getLocalExtensionSpec") # {}
            /\ Len(HelperCallOf("getLocalExtensionSpec").args) = 3
            /\ \/ HelperCallOf("getLocalExtensionSpec").args[2] # helper.arg[1]
               \/ HelperCallOf("getLocalExtensionSpec").args[3] = "invalid")
              => /\ helper.status = "thrown"
                 /\ Len(helper.calls) = 1
        /\ HelperCalls("archiveDirectory") # {} =>
              HelperCallOf("confirmExtensionVersion").args[2] = "yes"
        /\ (/\ HelperCalls("confirmExtensionVersion") # {}
            /\ Len(HelperCallOf("confirmExtensionVersion").args) = 2
            /\ HelperCallOf("confirmExtensionVersion").args[2] = "no")
              => /\ helper.status = "returned"
                 /\ helper.res = "undefined"
                 /\ helper.err = "none"
                 /\ Len(helper.calls) = 2
        /\ HelperCalls("publishExtensionVersion") # {} =>
              /\ helper.objectPath # ""
              /\ HelperCallOf("uploadObject").args = <<"EXTENSIONS_BUCKET_NAME">>
              /\ SubSeq(HelperCallOf("publishExtensionVersion").args, 1, 3) =
                     PackageUri(helper.objectPath)
        /\ (helper.status = "thrown" /\ helper.err \in {"archiveDirectory", "uploadObject"})
              => HelperCalls("publishExtensionVersion") = {}
        /\ (/\ helper.status = "thrown"
            /\ HelperCalls("publishExtensionVersion") # {})
              => (helper.err = "publisher not found"
                    <=> HelperCallOf("publishExtensionVersion").args[4] = 404)

\* The upload succeeded and the publish was rejected with status 404: the
\* unknown-publisher error was thrown.
C31_Witness ==
    /\ helper.fn = "publishExtensionVersionFromLocalSource"
    /\ helper.status = "thrown"
    /\ helper.err = "publisher not found"
    /\ HelperApis = <<"getLocalExtensionSpec", "confirmExtensionVersion",
                      "archiveDirectory", "uploadObject", "publishExtensionVersion">>

\* The entries of the prompt that were answered, in order.
EnteredIds ==
    [i \in {j \in 1..Len(helper.calls) : Len(helper.calls[j].args) = 2}
        |-> helper.calls[i].args[2]]

\* The id rule as the prompt's message words it: 6 to 45 characters, a
\* lowercase letter first, a lowercase letter or digit last, and only
\* lowercase letters, digits or '-' between.
StatedValidInstanceId(id) ==
    /\ 6 <= Len(id)
    /\ Len(id) <= 45
    /\ instanceIdRegex(id)

\* C32: promptForValidInstanceId accepts an entered id exactly when it has 6 to
\* 45 characters, starts with a lowercase letter, ends with a lowercase letter
\* or digit and holds only lowercase letters, digits or '-'; a rejected entry
\* causes another prompt and is never returned.
C32_ValidInstanceId ==
    helper.fn = "promptForValidInstanceId" =>
        \A i \in DOMAIN EnteredIds :
            IF StatedValidInstanceId(EnteredIds[i])
            THEN /\ helper.status = "returned"
                 /\ helper.res = EnteredIds[i]
                 /\ i = Len(helper.calls)
            ELSE /\ Len(helper.calls) > i
                 /\ helper.calls[i + 1].api = "promptOnce"
                 /\ helper.status = "returned" => helper.res # EnteredIds[i]

\* The last answer the helper got from its call of one collaborator.
AnswerOf(api) ==
    LET c == HelperCallOf(api) IN c.args[Len(c.args)]

\* The input of getSourceOrigin is neither empty, nor an archive link, nor a
\* version.
IsRefOrPath ==
    /\ helper.arg # <<>>
    /\ ~urlRegex(helper.arg)
    /\ ~semverValid(helper.arg)

\* The backend lookup the helper made, if any.
LookupCalls == HelperCalls("getExtension") \cup HelperCalls("getExtensionVersion")

\* C33: getSourceOrigin returns OFFICIAL for an empty input; otherwise URL for
\* an archive link; otherwise VERSION for a valid semver; otherwise
\* PUBLISHED_EXTENSION for a reference without version that the backend knows
\* and PUBLISHED_EXTENSION_VERSION for one with a version that the backend
\* knows; when parsing or the lookup fails, LOCAL if the input exists as a local
\* path and an error otherwise; no origin is returned on other grounds.
C33_SourceOrigin ==
    (helper.fn = "getSourceOrigin" /\ HelperEnded) =>
        /\ helper.arg = <<>> =>
              helper.status = "returned" /\ helper.res = "OFFICIAL" /\ helper.calls = <<>>
        /\ (helper.arg # <<>> /\ urlRegex(helper.arg)) =>
              helper.status = "returned" /\ helper.res = "URL" /\ helper.calls = <<>>
        /\ (helper.arg # <<>> /\ ~urlRegex(helper.arg) /\ semverValid(helper.arg)) =>
              helper.status = "returned" /\ helper.res = "VERSION" /\ helper.calls = <<>>
        /\ (IsRefOrPath /\ ~refParses(helper.arg)) =>
              /\ LookupCalls = {}
              /\ HelperCalls("existsSync") # {}
        /\ (IsRefOrPath /\ refParses(helper.arg)) =>
              /\ HelperApis[1] =
                     (IF parseRef(helper.arg).version = <<>> THEN "getExtension"
                      ELSE "getExtensionVersion")
              /\ helper.calls[1].args[Len(helper.calls[1].args)] = "known" =>
                     /\ helper.status = "returned"
                     /\ helper.res = PublishedOrigin(HelperApis[1])
                     /\ Len(helper.calls) = 1
              /\ helper.calls[1].args[Len(helper.calls[1].args)] = "unknown" =>
                     HelperCalls("existsSync") # {}
        /\ HelperCalls("existsSync") # {} =>
              IF AnswerOf("existsSync") = "exists"
              THEN helper.status = "returned" /\ helper.res = "LOCAL"
              ELSE helper.status = "thrown"
        /\ (helper.status = "returned" /\ helper.res = "LOCAL") =>
              HelperCalls("existsSync") # {}

\* The backend did not know a reference that parsed, the input exists as a
\* local path, and LOCAL was returned.
C33_Witness ==
    /\ helper.fn = "getSourceOrigin"
    /\ helper.arg = <<".", "/", "ext">>
    /\ HelperApis = <<"getExtension", "existsSync">>
    /\ helper.status = "returned"
    /\ helper.res = "LOCAL"

\* The entries of the spec whose param is not in the params file.
UnsetParams(paramVars, paramSpec) ==
    {i \in 1..Len(paramSpec) : paramSpec[i].param \notin DOMAIN paramVars}

\* C34: populateDefaultParams keeps every value that is set in the params file,
\* gives a param that is not set the default of the spec, raises an error if a
\* param is not set and has no default, and leaves the params of the file that
\* are not in the spec unchanged.
C34_PopulateDefaultParams ==
    helper.fn = "populateDefaultParams" =>
        LET paramVars == helper.arg[1]
            paramSpec == helper.arg[2]
            unset == UnsetParams(paramVars, paramSpec)
        IN  IF \E i \in unset : "default" \notin DOMAIN paramSpec[i]
            THEN helper.status = "thrown"
            ELSE /\ helper.status = "returned"
                 /\ DOMAIN helper.res =
                        DOMAIN paramVars \cup {paramSpec[i].param : i \in unset}
                 /\ \A k \in DOMAIN paramVars : helper.res[k] = paramVars[k]
                 /\ \A i \in unset : helper.res[paramSpec[i].param] = paramSpec[i].default

====
